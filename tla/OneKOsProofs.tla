---------------------------- MODULE OneKOsProofs ---------------------------
(***************************************************************************)
(* Theorems about the 1K OS: the kernel as it comes up, then the shell's   *)
(* readline and its calculator.                                            *)
(*                                                                         *)
(* The allocator is a bump allocator and create_process allocates and maps *)
(* in a fixed order, so an address space is known exactly from how many    *)
(* times map_page was called for it: Layout says so for every step of      *)
(* kernel_main.                                                            *)
(*                                                                         *)
(* readline works one keystroke at a time, LinesAsTyped looks at the whole *)
(* line: what is left of a prefix of it is related to what is left of the  *)
(* next longer one (EditPrintable, EditBackspace, EditOther), and ShellInv *)
(* follows readline through the line.                                      *)
(*                                                                         *)
(* The calculator reads numbers and prints one with loops.  Each recursive *)
(* function of the model is unfolded once (...Unfolds); then the digits    *)
(* read so far (PrefixBound) and the digits written so far (DigitsValue)   *)
(* are related to the number by induction over positions.                  *)
(***************************************************************************)
EXTENDS OneKOs, SequenceLemmas, FiniteSetTheorems, TLAPS

(* The m-th range of an address space whose first page was base.           *)
MapEntry(m, base) ==
  IF m = 1 THEN [va |-> KernelPage, n |-> PageEntries, pa |-> 0, user |-> FALSE]
  ELSE IF m = 2 THEN [va |-> 0, n |-> PageEntries, pa |-> 0, user |-> FALSE]
  ELSE [va |-> USER_BASE + (m - 3), n |-> 1, pa |-> base + (IF m = 3 THEN 3 ELSE m + 1),
        user |-> TRUE]

(* The x-th page allocated for it: the directory, the tables of the kernel *)
(* and of the identity mapping, the first user page, its table, and the    *)
(* other user pages, of which those of the image come first.               *)
UserOrdinal(x) == IF x = 4 THEN 0 ELSE x - 5

MemEntry(x, base, img) ==
  [page |-> base + (x - 1),
   what |-> IF x = 1 THEN "dir"
            ELSE IF x \in {2, 3, 5} THEN "table"
            ELSE IF UserOrdinal(x) < img THEN "image" ELSE "stack"]

MemLen(m) == IF m <= 2 THEN m + 1 ELSE m + 2

Directory(m) ==
  (IF m >= 1 THEN {512} ELSE {}) \cup (IF m >= 2 THEN {0} ELSE {}) \cup (IF m >= 3 THEN {4} ELSE {})

(* An address space for an image of img pages after m ranges.              *)
Laid(s, base, img, m) ==
  /\ s = [tables |-> s.tables, map |-> s.map, mem |-> s.mem]
  /\ DOMAIN s.tables = Directory(m)
  /\ s.map = [x \in 1 .. m |-> MapEntry(x, base)]
  /\ s.mem = [x \in 1 .. MemLen(m) |-> MemEntry(x, base, img)]

(* How many ranges a finished one has: two for the kernel, then the user   *)
(* pages, at least up to StackTop.                                         *)
Finished(img) == IF img <= 4 THEN 6 ELSE img + 2

-----------------------------------------------------------------------------
(* The inductive invariant.                                                *)

\* How many processes there are, and the page at which the next one starts.
Made == IF kpc \in {"enter", "user"} THEN 2 ELSE IF image = 0 THEN 0 ELSE 1
Base == IF image = 0 THEN build.free_ram ELSE build.free_ram + 8

Stages == {"boot", "create", "high", "low", "user_pages", "enter", "user", "panic"}

FreeSlot == [state |-> "unused", pid |-> 0, space |-> NoSpace]

KernelTypes ==
  /\ kpc \in Stages
  /\ build.free_ram \in FreeRams /\ build.shell_pages \in ShellSizes
  /\ image \in {0, build.shell_pages}
  /\ kpc = "boot" => image = 0
  /\ kpc \in {"enter", "user"} => image = build.shell_pages

Processes ==
  /\ procs = [k \in 0 .. 7 |-> procs[k]]
  /\ \A k \in 0 .. 7 : k >= Made => procs[k] = FreeSlot
  /\ Made >= 1 => /\ procs[0].state = "runnable" /\ procs[0].pid = 0
                  /\ Laid(procs[0].space, build.free_ram, 0, 6)
  /\ Made = 2 => /\ procs[1].state = "runnable" /\ procs[1].pid = 2
                 /\ Laid(procs[1].space, build.free_ram + 8, build.shell_pages,
                         Finished(build.shell_pages))

\* The space under construction, and the allocator.
Construction ==
  /\ kpc \in {"boot", "create"} => space = NoSpace /\ next_page = Base
  /\ kpc = "high" => Len(space.map) = 0
  /\ kpc = "low" => Len(space.map) = 1
  /\ kpc = "user_pages" => Len(space.map) \in 2 .. Finished(image)
  /\ kpc \in {"high", "low", "user_pages"} =>
       /\ Laid(space, Base, image, Len(space.map))
       /\ next_page = Base + MemLen(Len(space.map)) /\ next_page <= FreeRamEnd
  /\ kpc \in {"enter", "user"} =>
       /\ space = NoSpace
       /\ next_page = Base + MemLen(Finished(image)) /\ next_page <= FreeRamEnd

Layout == KernelTypes /\ Processes /\ Construction

(* The allocator stays below the VMM's page tables: after the 8 pages of   *)
(* the idle process there is room for the shell's.                         *)
RoomBelowTables ==
  \A f \in FreeRams, s \in ShellSizes : f + 8 + MemLen(Finished(s)) <= \h100

(* The shell and the 8 KB of stack behind it end where StackTop says.      *)
StackFits == \A s \in ShellSizes : s <= 2

-----------------------------------------------------------------------------
(* The two lists grow at their ends.                                       *)

LEMMA Units ==
  /\ KernelPage \div PageEntries = 512 /\ 0 \div PageEntries = 0
  /\ \A u \in 0 .. 1023 : (USER_BASE + u) \div PageEntries = 4
  BY SMT DEF KernelPage, PageEntries, USER_BASE

LEMMA MapGrows ==
  ASSUME NEW base, NEW m \in Nat
  PROVE  Append([x \in 1 .. m |-> MapEntry(x, base)], MapEntry(m + 1, base))
           = [x \in 1 .. m + 1 |-> MapEntry(x, base)]
<1>1. [x \in 1 .. m |-> MapEntry(x, base)] \in Seq({MapEntry(x, base) : x \in 1 .. m})
  OBVIOUS
<1>2. QED
  BY <1>1

LEMMA MemGrows ==
  ASSUME NEW base, NEW img, NEW n \in Nat
  PROVE  Append([x \in 1 .. n |-> MemEntry(x, base, img)], MemEntry(n + 1, base, img))
           = [x \in 1 .. n + 1 |-> MemEntry(x, base, img)]
<1>1. [x \in 1 .. n |-> MemEntry(x, base, img)] \in Seq({MemEntry(x, base, img) : x \in 1 .. n})
  OBVIOUS
<1>2. QED
  BY <1>1

-----------------------------------------------------------------------------
(* What the allocator and map_page do, with every field written out.       *)

Entry(va, n, pa, user) == [va |-> va, n |-> n, pa |-> pa, user |-> user]

Held(page, what) == [page |-> page, what |-> what]

Failed(p) == p

Built(nx, T, M, A, p) == [next |-> nx, space |-> [tables |-> T, map |-> M, mem |-> A], panic |-> p]

LEMMA Allocates ==
  ASSUME NEW nx \in Nat, NEW T, NEW M, NEW A, NEW p, NEW what, ~Failed(p), nx + 1 <= FreeRamEnd
  PROVE  alloc_pages(Built(nx, T, M, A, p), what)
           = Built(nx + 1, T, M, Append(A, [page |-> nx, what |-> what]), p)
<1> DEFINE b == Built(nx, T, M, A, p)
<1>1. b.next = nx /\ b.panic = p
  BY DEF Built
<1>2. FreeRamEnd \in Nat
  BY SMT DEF FreeRamEnd
<1>3. ~(nx + 1 > FreeRamEnd)
  BY <1>2, SMT
<1> HIDE DEF b
<1>4. ~(b.panic \/ b.next + 1 > FreeRamEnd)
  BY <1>1, <1>3, Zenon DEF Failed
<1>5. alloc_pages(b, what)
        = [b EXCEPT !.next = @ + 1, !.space.mem = Append(@, [page |-> b.next, what |-> what])]
  BY <1>4 DEF alloc_pages
<1>6. QED
  BY <1>1, <1>5 DEF Built, b

LEMMA AllocPanics ==
  \A nx, T, M, A, p, what : Failed(p) \/ nx + 1 > FreeRamEnd =>
    \E q : Failed(q) /\ alloc_pages(Built(nx, T, M, A, p), what) = Built(nx, T, M, A, q)
<1> TAKE nx, T, M, A, p, what
<1> HAVE Failed(p) \/ nx + 1 > FreeRamEnd
<1> DEFINE b == Built(nx, T, M, A, p)
<1>1. b.next = nx /\ b.panic = p
  BY DEF Built
<1> HIDE DEF b
<1>2. alloc_pages(b, what) = [b EXCEPT !.panic = TRUE]
  BY <1>1, Zenon DEF alloc_pages, Failed
<1>3. alloc_pages(b, what) = Built(nx, T, M, A, TRUE)
  BY <1>2, Zenon DEF Built, b
<1>4. QED
  BY <1>3, Zenon DEF b, Failed

LEMMA PutMap ==
  ASSUME NEW nx, NEW T, NEW M, NEW A, NEW p, NEW r
  PROVE  [Built(nx, T, M, A, p) EXCEPT !.space.map = Append(@, r)] = Built(nx, T, Append(M, r), A, p)
<1> DEFINE s == [tables |-> T, map |-> M, mem |-> A]
           t == [tables |-> T, map |-> Append(M, r), mem |-> A]
<1>1. [s EXCEPT !.map = Append(s.map, r)] = t
  OBVIOUS
<1>2. Built(nx, T, M, A, p).space = s /\ s.map = M
  BY DEF Built
<1> HIDE DEF s, t
<1>3. [[next |-> nx, space |-> s, panic |-> p] EXCEPT !.space = t] = [next |-> nx, space |-> t, panic |-> p]
  OBVIOUS
<1>4. QED
  BY <1>1, <1>2, <1>3 DEF Built, s, t

\* map_page with a table that is there, and with a new one, the next page.
LEMMA MapsKnown ==
  \A nx, T, M, A, p, va, n, pa, user : va \div PageEntries \in DOMAIN T =>
    map_page(Built(nx, T, M, A, p), va, n, pa, user)
      = Built(nx, T, Append(M, Entry(va, n, pa, user)), A, p)
<1> TAKE nx, T, M, A, p, va, n, pa, user
<1> HAVE va \div PageEntries \in DOMAIN T
<1> DEFINE b == Built(nx, T, M, A, p)
<1>1. b.space.tables = T
  BY Zenon DEF Built
<1> HIDE DEF b
<1>2. map_page(b, va, n, pa, user)
        = [b EXCEPT !.space.map = Append(@, Entry(va, n, pa, user))]
  BY <1>1, Zenon DEF map_page, Entry
<1>3. QED
  BY <1>2, Zenon DEF Built, b

WithTable(T, d, page) == [e \in DOMAIN T \cup {d} |-> IF e = d THEN page ELSE T[e]]

LEMMA MapsNew ==
  \A nx, T, M, A, p, va, n, pa, user, nx2, A2, p2 :
    /\ va \div PageEntries \notin DOMAIN T
    /\ alloc_pages(Built(nx, T, M, A, p), "table") = Built(nx2, T, M, A2, p2)
    => map_page(Built(nx, T, M, A, p), va, n, pa, user)
         = Built(nx2, WithTable(T, va \div PageEntries, nx),
               Append(M, Entry(va, n, pa, user)), A2, p2)
<1> TAKE nx, T, M, A, p, va, n, pa, user, nx2, A2, p2
<1> HAVE /\ va \div PageEntries \notin DOMAIN T
         /\ alloc_pages(Built(nx, T, M, A, p), "table") = Built(nx2, T, M, A2, p2)
<1> DEFINE b == Built(nx, T, M, A, p)
           d == va \div PageEntries
           b2 == [alloc_pages(b, "table") EXCEPT !.space.tables = WithTable(T, d, nx)]
<1>1. b.space.tables = T /\ b.next = nx
  BY Zenon DEF Built
<1>2. b2 = Built(nx2, WithTable(T, d, nx), M, A2, p2)
  <2>1. b2 = [Built(nx2, T, M, A2, p2) EXCEPT !.space.tables = WithTable(T, d, nx)]
    OBVIOUS
  <2> HIDE DEF b2, d
  <2>2. QED
    BY <2>1, Zenon DEF Built
<1>3. map_page(b, va, n, pa, user)
        = [b2 EXCEPT !.space.map = Append(@, Entry(va, n, pa, user))]
  <2> HIDE DEF b
  <2>1. QED
    BY <1>1, Zenon DEF map_page, WithTable, Entry
<1> HIDE DEF b, b2, d
<1>4. [b2 EXCEPT !.space.map = Append(@, Entry(va, n, pa, user))]
        = Built(nx2, WithTable(T, d, nx),
              Append(M, Entry(va, n, pa, user)), A2, p2)
  <2> DEFINE r == Entry(va, n, pa, user)
             W == WithTable(T, d, nx)
  <2> HIDE DEF r, W
  <2>1. [Built(nx2, W, M, A2, p2) EXCEPT !.space.map = Append(@, r)] = Built(nx2, W, Append(M, r), A2, p2)
    BY PutMap
  <2>2. [b2 EXCEPT !.space.map = Append(@, r)] = Built(nx2, W, Append(M, r), A2, p2)
    BY <1>2, <2>1 DEF W
  <2>3. QED
    BY <2>2 DEF r, W
<1>5. QED
  BY <1>3, <1>4 DEF b, d

\* A step of create_process that goes on, and one that does not.
LEMMA BuildFacts ==
  ASSUME NEW nx, NEW T, NEW M, NEW A, NEW p, NEW then,
         Build(Built(nx, T, M, A, p), then)
  PROVE  /\ Failed(p) => kpc' = "panic"
         /\ ~Failed(p) => kpc' = then
         /\ next_page' = nx /\ space' = [tables |-> T, map |-> M, mem |-> A]
  BY Zenon DEF Build, Built, Failed

LEMMA NowIs ==
  ASSUME space = [tables |-> space.tables, map |-> space.map, mem |-> space.mem]
  PROVE  Now = Built(next_page, space.tables, space.map, space.mem, Now.panic) /\ ~Failed(Now.panic)
  BY Zenon DEF Now, Built, Failed

\* The kernel panics only when at most one page is left.
Exhausted == kpc' = "panic" => next_page + 2 > FreeRamEnd

LEMMA Panics ==
  ASSUME Layout, kpc \in {"create", "high", "low", "user_pages"}, kpc' = "panic",
         UNCHANGED <<build, procs, image>>
  PROVE  Layout'
<1>1. Made' = Made
  BY DEF Made
<1>2. KernelTypes'
  BY DEF Layout, KernelTypes, Stages
<1>3. Processes'
  BY <1>1 DEF Layout, Processes
<1>4. QED
  BY <1>2, <1>3 DEF Layout, Construction

LEMMA GoesOn ==
  ASSUME Layout, kpc \in {"create", "high", "low", "user_pages"},
         kpc' \in {"high", "low", "user_pages"},
         UNCHANGED <<build, procs, image>>, Construction'
  PROVE  Layout'
<1>1. Made' = Made
  BY DEF Made
<1>2. KernelTypes'
  BY DEF Layout, KernelTypes, Stages
<1>3. Processes'
  BY <1>1 DEF Layout, Processes
<1>4. QED
  BY <1>2, <1>3 DEF Layout

-----------------------------------------------------------------------------
(* Each step of create_process.                                            *)

LEMMA BaseFacts ==
  ASSUME Layout
  PROVE  /\ Base \in Nat /\ image \in Nat /\ build.free_ram \in Nat \ {0}
         /\ build.shell_pages \in Nat \ {0} /\ Finished(image) \in Nat
<1>1. build.free_ram \in Nat \ {0} /\ build.shell_pages \in Nat \ {0}
  BY SizesAssumption DEF Layout, KernelTypes
<1>2. image \in Nat
  BY <1>1 DEF Layout, KernelTypes
<1>3. Base \in Nat
  BY <1>1 DEF Base
<1>4. Finished(image) \in Nat
  BY <1>2 DEF Finished
<1>5. QED
  BY <1>1, <1>2, <1>3, <1>4

LEMMA FreeRamEndIs == FreeRamEnd = 1023
  BY SMT DEF FreeRamEnd

LEMMA LaidBy ==
  ASSUME NEW T, NEW M, NEW A, NEW base, NEW img, NEW m, NEW s,
         s = [tables |-> T, map |-> M, mem |-> A],
         DOMAIN T = Directory(m),
         M = [x \in 1 .. m |-> MapEntry(x, base)],
         A = [x \in 1 .. MemLen(m) |-> MemEntry(x, base, img)]
  PROVE  Laid(s, base, img, m)
  BY DEF Laid

LEMMA LaidFacts ==
  ASSUME NEW s, NEW base, NEW img, NEW m \in Nat, Laid(s, base, img, m)
  PROVE  Len(s.map) = m /\ Len(s.mem) = MemLen(m) /\ MemLen(m) \in Nat
  BY DEF Laid, MemLen

LEMMA CreateStep ==
  ASSUME Layout, create_process
  PROVE  Layout' /\ Exhausted
<1>0. kpc = "create" /\ UNCHANGED <<build, procs, image>>
  BY DEF create_process
<1>1. Unused # {}
  <2>1. procs[7] = FreeSlot
    BY DEF Layout, Processes, Made
  <2>2. 7 \in Unused
    BY <2>1 DEF Unused, FreeSlot, Layout, Processes
  <2>3. QED
    BY <2>2
<1>2. space = NoSpace /\ next_page = Base /\ Base \in Nat
  BY <1>0, BaseFacts DEF Layout, Construction
<1> DEFINE p == Now.panic
<1>3. Now = Built(next_page, << >>, << >>, << >>, p) /\ ~Failed(p)
  BY <1>2, Zenon DEF Now, Built, NoSpace, Failed
<1> HIDE DEF p
<1>4. Build(alloc_pages(Built(next_page, << >>, << >>, << >>, p), "dir"), "high")
  BY <1>1, <1>3, Zenon DEF create_process
<1>5. CASE next_page + 1 <= FreeRamEnd
  <2> DEFINE A == Append(<< >>, [page |-> next_page, what |-> "dir"])
  <2>1. Build(Built(next_page + 1, << >>, << >>, A, p), "high")
    <3>1. alloc_pages(Built(next_page, << >>, << >>, << >>, p), "dir")
            = Built(next_page + 1, << >>, << >>, A, p)
      <4>1. next_page \in Nat
        BY <1>2
      <4>2. \A T, M, B : alloc_pages(Built(next_page, T, M, B, p), "dir")
              = Built(next_page + 1, T, M, Append(B, [page |-> next_page, what |-> "dir"]), p)
        BY <1>3, <1>5, <4>1, Allocates
      <4>3. QED
        BY <4>2, Zenon
    <3>2. QED
      BY <1>4, <3>1, Zenon
  <2>2. kpc' = "high" /\ next_page' = next_page + 1
        /\ space' = [tables |-> << >>, map |-> << >>, mem |-> A]
    BY <1>3, <2>1, BuildFacts
  <2>3. A = [x \in 1 .. MemLen(0) |-> MemEntry(x, Base, image)]
    <3>1. MemEntry(1, Base, image) = [page |-> next_page, what |-> "dir"] /\ MemLen(0) = 1
      BY <1>2 DEF MemEntry, MemLen
    <3>2. << >> = [x \in 1 .. 0 |-> MemEntry(x, Base, image)]
      OBVIOUS
    <3>3. QED
      BY <3>1, <3>2, MemGrows, 0 + 1 = 1, 0 \in Nat
  <2> HIDE DEF A
  <2>4. << >> = [x \in 1 .. 0 |-> MapEntry(x, Base)] /\ DOMAIN << >> = Directory(0)
    BY DEF Directory
  <2>5. Laid(space', Base, image, 0)
    BY <2>2, <2>3, <2>4, LaidBy
  <2>6. Len(space'.map) = 0
    BY <2>2
  <2>7. Base' = Base /\ next_page' = Base + MemLen(0) /\ next_page' <= FreeRamEnd
    BY <1>0, <1>2, <1>5, <2>2 DEF Base, MemLen
  <2>8. Construction'
    BY <1>0, <2>2, <2>5, <2>6, <2>7 DEF Construction
  <2>9. QED
    BY <1>0, <2>2, <2>8, GoesOn DEF Exhausted
<1>6. CASE ~(next_page + 1 <= FreeRamEnd)
  <2>1. next_page + 1 > FreeRamEnd
    BY <1>2, <1>6, FreeRamEndIs
  <2>2. PICK q : Failed(q) /\ alloc_pages(Built(next_page, << >>, << >>, << >>, p), "dir")
                        = Built(next_page, << >>, << >>, << >>, q)
    BY <2>1, AllocPanics, SMT
  <2>3. kpc' = "panic"
    BY <1>4, <2>2, BuildFacts
  <2>4. Exhausted
    BY <1>2, <2>1, FreeRamEndIs DEF Exhausted
  <2>5. QED
    BY <1>0, <2>3, <2>4, Panics
<1>7. QED
  BY <1>5, <1>6

\* map_page after a panic.
LEMMA MapPanics ==
  ASSUME NEW nx, NEW T, NEW M, NEW A, NEW p, Failed(p), NEW va, NEW n, NEW pa, NEW user, NEW then,
         Build(map_page(Built(nx, T, M, A, p), va, n, pa, user), then)
  PROVE  kpc' = "panic"
<1>1. CASE va \div PageEntries \in DOMAIN T
  <2> DEFINE M2 == Append(M, Entry(va, n, pa, user))
  <2>1. map_page(Built(nx, T, M, A, p), va, n, pa, user) = Built(nx, T, M2, A, p)
    BY <1>1, MapsKnown, SMT
  <2> HIDE DEF M2
  <2>2. Build(Built(nx, T, M2, A, p), then)
    BY <2>1, Zenon
  <2>3. QED
    BY <2>2, BuildFacts
<1>2. CASE va \div PageEntries \notin DOMAIN T
  <2> DEFINE M2 == Append(M, Entry(va, n, pa, user))
             T2 == WithTable(T, va \div PageEntries, nx)
  <2>1. PICK q : Failed(q) /\ alloc_pages(Built(nx, T, M, A, p), "table") = Built(nx, T, M, A, q)
    BY AllocPanics
  <2>2. map_page(Built(nx, T, M, A, p), va, n, pa, user) = Built(nx, T2, M2, A, q)
    BY <1>2, <2>1, MapsNew, SMT
  <2> HIDE DEF M2, T2
  <2>3. Build(Built(nx, T2, M2, A, q), then)
    BY <2>2, Zenon
  <2>4. QED
    BY <2>1, <2>3, BuildFacts
<1>3. QED
  BY <1>1, <1>2

Maps(m, base) == [x \in 1 .. m |-> MapEntry(x, base)]
Mems(a, base, img) == [x \in 1 .. a |-> MemEntry(x, base, img)]

\* A range that needs a new page table,
LEMMA MapsTable ==
  ASSUME NEW base \in Nat, NEW img, NEW m \in Nat, NEW a \in Nat, NEW T, NEW p, ~Failed(p),
         NEW va, NEW n, NEW pa, NEW user, NEW then,
         DOMAIN T = Directory(m), va \div PageEntries \notin Directory(m),
         Directory(m + 1) = Directory(m) \cup {va \div PageEntries},
         MapEntry(m + 1, base) = Entry(va, n, pa, user),
         NEW nx, nx = base + a, MemEntry(a + 1, base, img) = Held(nx, "table"),
         MemLen(m + 1) = a + 1,
         Build(map_page(Built(nx, T, Maps(m, base), Mems(a, base, img), p), va, n, pa, user), then)
  PROVE  \/ kpc' = "panic" /\ nx + 1 > FreeRamEnd
         \/ /\ kpc' = then /\ next_page' = base + MemLen(m + 1) /\ next_page' <= FreeRamEnd
            /\ Laid(space', base, img, m + 1)
<1> DEFINE M == Maps(m, base)
           A == Mems(a, base, img)
           T2 == WithTable(T, va \div PageEntries, nx)
<1>0. nx \in Nat
  OBVIOUS
<1> HIDE DEF M, A, T2
<1>1. Build(map_page(Built(nx, T, M, A, p), va, n, pa, user), then)
  BY DEF M, A
<1>2. Append(M, Entry(va, n, pa, user)) = Maps(m + 1, base)
  BY MapGrows DEF M, Maps
<1>3. Append(A, [page |-> nx, what |-> "table"]) = Mems(a + 1, base, img)
  BY MemGrows DEF A, Mems, Held
<1>4. CASE nx + 1 <= FreeRamEnd
  <2>1. alloc_pages(Built(nx, T, M, A, p), "table") = Built(nx + 1, T, M, Mems(a + 1, base, img), p)
    <3>1. alloc_pages(Built(nx, T, M, A, p), "table")
            = Built(nx + 1, T, M, Append(A, [page |-> nx, what |-> "table"]), p)
      BY <1>0, <1>4, Allocates
    <3>2. QED
      BY <1>3, <3>1
  <2>2. map_page(Built(nx, T, M, A, p), va, n, pa, user)
          = Built(nx + 1, T2, Maps(m + 1, base), Mems(a + 1, base, img), p)
    <3> DEFINE nx2 == nx + 1
               A2 == Mems(a + 1, base, img)
    <3> HIDE DEF nx2, A2
    <3>1. alloc_pages(Built(nx, T, M, A, p), "table") = Built(nx2, T, M, A2, p)
      BY <2>1 DEF nx2, A2
    <3>2. map_page(Built(nx, T, M, A, p), va, n, pa, user)
            = Built(nx2, T2, Append(M, Entry(va, n, pa, user)), A2, p)
      BY <3>1, MapsNew, SMT DEF T2
    <3>3. QED
      BY <1>2, <3>2 DEF nx2, A2
  <2>3. Build(Built(nx + 1, T2, Maps(m + 1, base), Mems(a + 1, base, img), p), then)
    BY <1>1, <2>2, Zenon
  <2>4. kpc' = then /\ next_page' = nx + 1
        /\ space' = [tables |-> T2, map |-> Maps(m + 1, base), mem |-> Mems(a + 1, base, img)]
    BY <2>3, BuildFacts
  <2>5. DOMAIN T2 = Directory(m + 1)
    BY DEF T2, WithTable
  <2>6. Laid(space', base, img, m + 1)
    BY <2>4, <2>5, LaidBy DEF Maps, Mems
  <2>7. nx + 1 = base + MemLen(m + 1)
    OBVIOUS
  <2>8. QED
    BY <1>4, <2>4, <2>6, <2>7
<1>5. CASE ~(nx + 1 <= FreeRamEnd)
  <2>1. nx + 1 > FreeRamEnd
    BY <1>0, <1>5, FreeRamEndIs
  <2>2. PICK q : Failed(q) /\ alloc_pages(Built(nx, T, M, A, p), "table") = Built(nx, T, M, A, q)
    BY <2>1, AllocPanics, SMT
  <2> DEFINE M2 == Append(M, Entry(va, n, pa, user))
  <2>3. map_page(Built(nx, T, M, A, p), va, n, pa, user) = Built(nx, T2, M2, A, q)
    BY <2>2, MapsNew, SMT DEF T2
  <2> HIDE DEF M2
  <2>4. Build(Built(nx, T2, M2, A, q), then)
    BY <1>1, <2>3, Zenon
  <2>5. QED
    BY <2>1, <2>2, <2>4, BuildFacts
<1>6. QED
  BY <1>4, <1>5

\* and one whose page table is there.
LEMMA MapsInTable ==
  ASSUME NEW base \in Nat, NEW img, NEW m \in Nat, NEW a \in Nat, NEW T, NEW p, ~Failed(p),
         NEW va, NEW n, NEW pa, NEW user, NEW then,
         DOMAIN T = Directory(m), va \div PageEntries \in Directory(m),
         Directory(m + 1) = Directory(m),
         MapEntry(m + 1, base) = Entry(va, n, pa, user),
         MemLen(m + 1) = a, NEW nx, nx = base + a,
         Build(map_page(Built(nx, T, Maps(m, base), Mems(a, base, img), p), va, n, pa, user), then)
  PROVE  /\ kpc' = then /\ next_page' = base + MemLen(m + 1)
         /\ Laid(space', base, img, m + 1)
<1> DEFINE M == Maps(m, base)
           A == Mems(a, base, img)
<1> HIDE DEF M, A
<1>1. Build(map_page(Built(nx, T, M, A, p), va, n, pa, user), then)
  BY DEF M, A
<1>2. Append(M, Entry(va, n, pa, user)) = Maps(m + 1, base)
  BY MapGrows DEF M, Maps
<1>3. map_page(Built(nx, T, M, A, p), va, n, pa, user) = Built(nx, T, Maps(m + 1, base), A, p)
  <2>1. va \div PageEntries \in DOMAIN T
    BY Zenon
  <2>2. map_page(Built(nx, T, M, A, p), va, n, pa, user)
          = Built(nx, T, Append(M, Entry(va, n, pa, user)), A, p)
    BY <2>1, MapsKnown, SMT
  <2>3. QED
    BY <1>2, <2>2, Zenon
<1>4. Build(Built(nx, T, Maps(m + 1, base), A, p), then)
  BY <1>1, <1>3, Zenon
<1>5. kpc' = then /\ next_page' = nx /\ space' = [tables |-> T, map |-> Maps(m + 1, base), mem |-> A]
  BY <1>4, BuildFacts
<1>6. Laid(space', base, img, m + 1)
  BY <1>5, LaidBy DEF Maps, Mems, A
<1>7. QED
  BY <1>5, <1>6

LEMMA LaidSpace ==
  ASSUME NEW base, NEW img, NEW m, Laid(space, base, img, m), next_page = base + MemLen(m)
  PROVE  /\ Now = Built(base + MemLen(m), space.tables, Maps(m, base), Mems(MemLen(m), base, img), Now.panic)
         /\ ~Failed(Now.panic) /\ DOMAIN space.tables = Directory(m)
<1>1. space = [tables |-> space.tables, map |-> space.map, mem |-> space.mem]
  BY DEF Laid
<1>2. space.map = Maps(m, base) /\ space.mem = Mems(MemLen(m), base, img)
  BY DEF Laid, Maps, Mems
<1>3. Now = Built(next_page, space.tables, space.map, space.mem, Now.panic) /\ ~Failed(Now.panic)
  BY <1>1, NowIs
<1>4. QED
  BY <1>2, <1>3 DEF Laid

LEMMA HighStep ==
  ASSUME Layout, MapKernel
  PROVE  Layout' /\ Exhausted
<1>0. kpc = "high" /\ UNCHANGED <<build, procs, image>> /\ Base \in Nat
  BY BaseFacts DEF MapKernel
<1>1. Laid(space, Base, image, 0) /\ next_page = Base + MemLen(0)
  BY <1>0 DEF Layout, Construction
<1> DEFINE p == Now.panic
           T == space.tables
           user == FALSE
<1>2. /\ Now = Built(Base + MemLen(0), T, Maps(0, Base), Mems(MemLen(0), Base, image), p)
      /\ ~Failed(p) /\ DOMAIN T = Directory(0)
  BY <1>1, LaidSpace
<1>3. Build(map_page(Now, KernelPage, PageEntries, 0, user), "low")
  BY DEF MapKernel
<1> HIDE DEF p, T, user
<1>4. Build(map_page(Built(next_page, T, Maps(0, Base), Mems(1, Base, image), p),
                     KernelPage, PageEntries, 0, user), "low")
  <2>1. MemLen(0) = 1 /\ next_page = Base + MemLen(0)
    BY <1>1 DEF MemLen
  <2>2. QED
    BY <1>2, <1>3, <2>1, Zenon
<1>5. /\ KernelPage \div PageEntries \notin Directory(0)
      /\ Directory(0 + 1) = Directory(0) \cup {KernelPage \div PageEntries}
      /\ MapEntry(0 + 1, Base) = Entry(KernelPage, PageEntries, 0, user)
      /\ MemEntry(1 + 1, Base, image) = Held(next_page, "table")
      /\ MemLen(0 + 1) = 1 + 1
  <2>1. KernelPage \div PageEntries \notin Directory(0)
    BY DEF Directory
  <2>2. Directory(0 + 1) = Directory(0) \cup {KernelPage \div PageEntries}
    BY Units, SMT DEF Directory
  <2>3. MapEntry(0 + 1, Base) = Entry(KernelPage, PageEntries, 0, user)
    BY DEF MapEntry, Entry, user
  <2>4. MemEntry(1 + 1, Base, image) = Held(next_page, "table")
    BY <1>0, <1>1 DEF MemEntry, Held, MemLen
  <2>5. MemLen(0 + 1) = 1 + 1
    BY DEF MemLen
  <2>6. QED
    BY <2>1, <2>2, <2>3, <2>4, <2>5, Zenon
<1>6. \/ kpc' = "panic" /\ next_page + 1 > FreeRamEnd
      \/ /\ kpc' = "low" /\ next_page' = Base + MemLen(1) /\ next_page' <= FreeRamEnd
         /\ Laid(space', Base, image, 1)
  <2>1. next_page = Base + 1 /\ 0 \in Nat /\ 1 \in Nat /\ 0 + 1 = 1
    BY <1>1 DEF MemLen
  <2>2. Base \in Nat /\ ~Failed(p) /\ DOMAIN T = Directory(0)
    BY <1>0, <1>2
  <2> DEFINE va == KernelPage
             pa == 0
             m == 0
             a == 1
             n == PageEntries
  <2> HIDE DEF va, pa, m, a, n
  <2>3. /\ m \in Nat /\ a \in Nat /\ next_page = Base + a /\ DOMAIN T = Directory(m)
        /\ va \div PageEntries \notin Directory(m)
        /\ Directory(m + 1) = Directory(m) \cup {va \div PageEntries}
        /\ MapEntry(m + 1, Base) = Entry(va, n, pa, user)
        /\ MemEntry(a + 1, Base, image) = Held(next_page, "table")
        /\ MemLen(m + 1) = a + 1
        /\ Build(map_page(Built(next_page, T, Maps(m, Base), Mems(a, Base, image), p),
                          va, n, pa, user), "low")
    BY <1>4, <1>5, <2>1, <2>2, Zenon DEF va, pa, m, a, n
  <2>4. \/ kpc' = "panic" /\ next_page + 1 > FreeRamEnd
        \/ /\ kpc' = "low" /\ next_page' = Base + MemLen(m + 1) /\ next_page' <= FreeRamEnd
           /\ Laid(space', Base, image, m + 1)
    BY <2>2, <2>3, MapsTable
  <2>5. m + 1 = 1
    BY <2>1 DEF m
  <2>6. QED
    BY <2>4, <2>5
<1>7. CASE kpc' = "panic" /\ next_page + 1 > FreeRamEnd
  <2>1. Exhausted
    BY <1>0, <1>1, <1>7, FreeRamEndIs DEF Exhausted, MemLen
  <2>2. QED
    BY <1>0, <1>7, <2>1, Panics
<1>8. CASE /\ kpc' = "low" /\ next_page' = Base + MemLen(1) /\ next_page' <= FreeRamEnd
           /\ Laid(space', Base, image, 1)
  <2>1. Len(space'.map) = 1
    BY <1>8 DEF Laid
  <2>2. Base' = Base
    BY <1>0 DEF Base
  <2>3. Construction'
    BY <1>0, <1>8, <2>1, <2>2 DEF Construction
  <2>4. QED
    BY <1>0, <1>8, <2>3, GoesOn DEF Exhausted
<1>9. QED
  BY <1>6, <1>7, <1>8

LEMMA LowStep ==
  ASSUME Layout, MapIdentity
  PROVE  Layout' /\ Exhausted
<1>0. kpc = "low" /\ UNCHANGED <<build, procs, image>> /\ Base \in Nat
  BY BaseFacts DEF MapIdentity
<1>1. Laid(space, Base, image, 1) /\ next_page = Base + MemLen(1)
  BY <1>0 DEF Layout, Construction
<1> DEFINE p == Now.panic
           T == space.tables
           user == FALSE
<1>2. /\ Now = Built(Base + MemLen(1), T, Maps(1, Base), Mems(MemLen(1), Base, image), p)
      /\ ~Failed(p) /\ DOMAIN T = Directory(1)
  BY <1>1, LaidSpace
<1>3. Build(map_page(Now, 0, PageEntries, 0, user), "user_pages")
  BY DEF MapIdentity
<1> HIDE DEF p, T, user
<1>4. Build(map_page(Built(next_page, T, Maps(1, Base), Mems(2, Base, image), p),
                     0, PageEntries, 0, user), "user_pages")
  <2>1. MemLen(1) = 2 /\ next_page = Base + MemLen(1)
    BY <1>1 DEF MemLen
  <2>2. QED
    BY <1>2, <1>3, <2>1, Zenon
<1>5. /\ 0 \div PageEntries \notin Directory(1)
      /\ Directory(1 + 1) = Directory(1) \cup {0 \div PageEntries}
      /\ MapEntry(1 + 1, Base) = Entry(0, PageEntries, 0, user)
      /\ MemEntry(2 + 1, Base, image) = Held(next_page, "table")
      /\ MemLen(1 + 1) = 2 + 1
  <2>1. 0 \div PageEntries \notin Directory(1)
    BY Units DEF Directory
  <2>2. Directory(1 + 1) = Directory(1) \cup {0 \div PageEntries}
    BY Units, SMT DEF Directory
  <2>3. MapEntry(1 + 1, Base) = Entry(0, PageEntries, 0, user)
    BY DEF MapEntry, Entry, user
  <2>4. MemEntry(2 + 1, Base, image) = Held(next_page, "table")
    BY <1>0, <1>1 DEF MemEntry, Held, MemLen
  <2>5. MemLen(1 + 1) = 2 + 1
    BY DEF MemLen
  <2>6. QED
    BY <2>1, <2>2, <2>3, <2>4, <2>5, Zenon
<1>6. \/ kpc' = "panic" /\ next_page + 1 > FreeRamEnd
      \/ /\ kpc' = "user_pages" /\ next_page' = Base + MemLen(2) /\ next_page' <= FreeRamEnd
         /\ Laid(space', Base, image, 2)
  <2>1. next_page = Base + 2 /\ 1 \in Nat /\ 2 \in Nat /\ 1 + 1 = 2
    BY <1>1 DEF MemLen
  <2>2. Base \in Nat /\ ~Failed(p) /\ DOMAIN T = Directory(1)
    BY <1>0, <1>2
  <2> DEFINE va == 0
             pa == 0
             m == 1
             a == 2
             n == PageEntries
  <2> HIDE DEF va, pa, m, a, n
  <2>3. /\ m \in Nat /\ a \in Nat /\ next_page = Base + a /\ DOMAIN T = Directory(m)
        /\ va \div PageEntries \notin Directory(m)
        /\ Directory(m + 1) = Directory(m) \cup {va \div PageEntries}
        /\ MapEntry(m + 1, Base) = Entry(va, n, pa, user)
        /\ MemEntry(a + 1, Base, image) = Held(next_page, "table")
        /\ MemLen(m + 1) = a + 1
        /\ Build(map_page(Built(next_page, T, Maps(m, Base), Mems(a, Base, image), p),
                          va, n, pa, user), "user_pages")
    BY <1>4, <1>5, <2>1, <2>2, Zenon DEF va, pa, m, a, n
  <2>4. \/ kpc' = "panic" /\ next_page + 1 > FreeRamEnd
        \/ /\ kpc' = "user_pages" /\ next_page' = Base + MemLen(m + 1) /\ next_page' <= FreeRamEnd
           /\ Laid(space', Base, image, m + 1)
    BY <2>2, <2>3, MapsTable
  <2>5. m + 1 = 2
    BY <2>1 DEF m
  <2>6. QED
    BY <2>4, <2>5
<1>7. CASE kpc' = "panic" /\ next_page + 1 > FreeRamEnd
  <2>1. Exhausted
    BY <1>0, <1>1, <1>7, FreeRamEndIs DEF Exhausted, MemLen
  <2>2. QED
    BY <1>0, <1>7, <2>1, Panics
<1>8. CASE /\ kpc' = "user_pages" /\ next_page' = Base + MemLen(2) /\ next_page' <= FreeRamEnd
           /\ Laid(space', Base, image, 2)
  <2>1. Len(space'.map) = 2
    BY <1>8 DEF Laid
  <2>2. Base' = Base
    BY <1>0 DEF Base
  <2>c. 2 \in 2 .. Finished(image)
    BY BaseFacts DEF Finished
  <2>3. Construction'
    BY <1>0, <2>c, <1>8, <2>1, <2>2 DEF Construction
  <2>4. QED
    BY <1>0, <1>8, <2>3, GoesOn DEF Exhausted
<1>9. QED
  BY <1>6, <1>7, <1>8

LEMMA UserGoesOn ==
  ASSUME Layout, kpc \in {"low", "user_pages"}, UNCHANGED <<build, procs, image>>,
         NEW m \in 2 .. Finished(image),
         \/ kpc' = "panic" /\ next_page + 2 > FreeRamEnd
         \/ /\ kpc' = "user_pages" /\ next_page' = Base + MemLen(m) /\ next_page' <= FreeRamEnd
            /\ Laid(space', Base, image, m)
  PROVE  Layout' /\ Exhausted /\ (kpc' = "user_pages" => Len(space'.map) = m)
<1>1. CASE kpc' = "panic" /\ next_page + 2 > FreeRamEnd
  BY <1>1, Panics DEF Exhausted
<1>2. CASE /\ kpc' = "user_pages" /\ next_page' = Base + MemLen(m) /\ next_page' <= FreeRamEnd
           /\ Laid(space', Base, image, m)
  <2>1. Len(space'.map) = m
    BY <1>2, BaseFacts DEF Laid
  <2>2. Base' = Base
    BY DEF Base
  <2>3. Construction'
    BY <1>2, <2>1, <2>2 DEF Construction
  <2>4. QED
    BY <1>2, <2>1, <2>3, GoesOn DEF Exhausted
<1>3. QED
  BY <1>1, <1>2

LEMMA UserMappedIs ==
  ASSUME NEW base, NEW img, NEW m \in Nat, m >= 2, Laid(space, base, img, m)
  PROVE  UserMapped = m - 2
<1>1. ASSUME NEW k \in 1 .. m PROVE MapEntry(k, base).user <=> k >= 3
  <2>1. CASE k = 1
    <3>1. MapEntry(k, base).user = FALSE
      BY <2>1, Zenon DEF MapEntry
    <3>2. QED
      BY <2>1, <3>1
  <2>2. CASE k = 2
    <3>1. 2 # 1
      OBVIOUS
    <3>2. MapEntry(k, base).user = FALSE
      BY <2>2, <3>1, Zenon DEF MapEntry
    <3>3. QED
      BY <2>2, <3>2
  <2>3. CASE k >= 3
    <3>1. k # 1 /\ k # 2
      BY <2>3
    <3>2. MapEntry(k, base).user = TRUE
      BY <3>1, Zenon DEF MapEntry
    <3>3. QED
      BY <2>3, <3>2
  <2>4. QED
    BY <2>1, <2>2, <2>3
<1>2. DOMAIN space.map = 1 .. m /\ \A k \in 1 .. m : space.map[k] = MapEntry(k, base)
  BY DEF Laid
<1>3. {k \in DOMAIN space.map : space.map[k].user} = {k \in 1 .. m : k >= 3}
  BY <1>1, <1>2, Zenon
<1>4. {k \in 1 .. m : k >= 3} = 3 .. m
  OBVIOUS
<1>5. Cardinality(3 .. m) = m - 2
  BY FS_Interval
<1>6. QED
  BY <1>3, <1>4, <1>5 DEF UserMapped

LEMMA UserStep ==
  ASSUME Layout, MapUser
  PROVE  Layout' /\ Exhausted /\ (kpc' = "user_pages" => Len(space'.map) = Len(space.map) + 1)
<1> DEFINE m == Len(space.map)
           a == MemLen(m)
           U == m - 2
           what == IF U < image THEN "image" ELSE "stack"
           p == Now.panic
           T == space.tables
           user == TRUE
<1>0. kpc = "user_pages" /\ UNCHANGED <<build, procs, image>> /\ Base \in Nat /\ image \in Nat
  BY BaseFacts DEF MapUser
<1>1. /\ Laid(space, Base, image, m) /\ next_page = Base + a /\ next_page <= 1023
      /\ m \in 2 .. Finished(image) /\ Finished(image) \in Nat
  BY <1>0, BaseFacts, FreeRamEndIs DEF Layout, Construction
<1>2. UserMapped = U
  <2> HIDE DEF m
  <2>1. m \in Nat /\ m >= 2
    BY <1>1
  <2>2. QED
    BY <1>1, <2>1, UserMappedIs DEF U
<1>3. /\ Now = Built(next_page, T, Maps(m, Base), Mems(a, Base, image), p)
      /\ ~Failed(p) /\ DOMAIN T = Directory(m)
  BY <1>1, LaidSpace
<1>4. Build(map_page(alloc_pages(Now, what), USER_BASE + U, 1, next_page, user), "user_pages")
  BY <1>2 DEF MapUser, UserPage
<1>5. U < image \/ U < 4
  <2>1. U < image \/ USER_BASE + U < StackTop
    BY <1>2 DEF MapUser
  <2> HIDE DEF m
  <2>2. QED
    BY <1>1, <2>1, SMT DEF USER_BASE, StackTop
<1> HIDE DEF m
<1>6. m \in Nat /\ m >= 2 /\ U \in 0 .. 1023 /\ m + 1 \in 2 .. Finished(image) /\ a \in Nat
  BY <1>0, <1>1, <1>5 DEF Finished, MemLen
<1>7. MemEntry(a + 1, Base, image) = Held(next_page, what)
  <2>1. a + 1 = (IF m = 2 THEN 4 ELSE m + 3)
    BY <1>6 DEF MemLen
  <2>2. UserOrdinal(a + 1) = U /\ a + 1 # 1 /\ a + 1 \notin {2, 3, 5}
    BY <1>6, <2>1 DEF UserOrdinal
  <2>3. Base + ((a + 1) - 1) = next_page
    BY <1>0, <1>1, <1>6
  <2>4. QED
    BY <2>2, <2>3, Zenon DEF MemEntry, Held
<1>8. (USER_BASE + U) \div PageEntries = 4
  BY <1>6, Units
<1>9. MapEntry(m + 1, Base) = Entry(USER_BASE + U, 1, next_page, user)
  <2>1. m + 1 # 1 /\ m + 1 # 2 /\ (m + 1) - 3 = U
    BY <1>6
  <2>2. Base + (IF m + 1 = 3 THEN 3 ELSE (m + 1) + 1) = next_page
    BY <1>0, <1>1, <1>6 DEF MemLen
  <2>3. QED
    BY <2>1, <2>2, Zenon DEF MapEntry, Entry
<1> HIDE DEF a, U, what, p, T, user
<1>10. CASE next_page + 1 <= FreeRamEnd
  <2> DEFINE nx == next_page + 1
             A2 == Mems(a + 1, Base, image)
             M == Maps(m, Base)
  <2>1. alloc_pages(Now, what) = Built(nx, T, M, A2, p)
    <3> DEFINE A == Mems(a, Base, image)
    <3>1. Append(A, Held(next_page, what)) = A2
      BY <1>6, <1>7, MemGrows DEF Mems
    <3> HIDE DEF A, A2, M
    <3>2. next_page \in Nat
      BY <1>0, <1>1, <1>6
    <3>3. alloc_pages(Built(next_page, T, M, A, p), what) = Built(next_page + 1, T, M, Append(A, Held(next_page, what)), p)
      BY <1>3, <1>10, <3>2, Allocates DEF Held
    <3>4. QED
      BY <1>3, <3>1, <3>3 DEF A, M
  <2>2. nx = Base + (a + 1) /\ a + 1 \in Nat /\ nx <= FreeRamEnd
    BY <1>0, <1>1, <1>6, <1>10
  <2> HIDE DEF nx
  <2>3. Build(map_page(Built(nx, T, Maps(m, Base), Mems(a + 1, Base, image), p),
                       USER_BASE + U, 1, next_page, user), "user_pages")
    BY <1>4, <2>1
  <2>4. CASE m = 2
    <3>1. /\ 4 \notin Directory(m) /\ Directory(m + 1) = Directory(m) \cup {4}
          /\ MemLen(m + 1) = (a + 1) + 1
      BY <2>4 DEF Directory, MemLen, a
    <3>2. MemEntry((a + 1) + 1, Base, image) = Held(nx, "table")
      <4>1. (a + 1) + 1 = 5 /\ nx = Base + (5 - 1)
        BY <1>6, <2>2, <2>4 DEF MemLen, a
      <4>2. QED
        BY <4>1 DEF MemEntry, Held
    <3>3. \/ kpc' = "panic" /\ nx + 1 > FreeRamEnd
          \/ /\ kpc' = "user_pages" /\ next_page' = Base + MemLen(m + 1) /\ next_page' <= FreeRamEnd
             /\ Laid(space', Base, image, m + 1)
      <4> DEFINE va == USER_BASE + U
                 a1 == a + 1
      <4> HIDE DEF va, a1
      <4>1. /\ va \div PageEntries \notin Directory(m)
            /\ Directory(m + 1) = Directory(m) \cup {va \div PageEntries}
            /\ MapEntry(m + 1, Base) = Entry(va, 1, next_page, user)
            /\ MemEntry(a1 + 1, Base, image) = Held(nx, "table")
            /\ MemLen(m + 1) = a1 + 1
            /\ a1 \in Nat /\ nx = Base + a1
            /\ Build(map_page(Built(nx, T, Maps(m, Base), Mems(a1, Base, image), p),
                              va, 1, next_page, user), "user_pages")
        BY <1>8, <1>9, <2>2, <2>3, <3>1, <3>2, Zenon DEF va, a1
      <4>2. QED
        <5>1. Base \in Nat /\ m \in Nat /\ ~Failed(p) /\ DOMAIN T = Directory(m)
          BY <1>0, <1>3, <1>6
        <5> DEFINE pa == next_page
        <5> HIDE DEF pa
        <5>2. /\ MapEntry(m + 1, Base) = Entry(va, 1, pa, user)
              /\ Build(map_page(Built(nx, T, Maps(m, Base), Mems(a1, Base, image), p),
                                va, 1, pa, user), "user_pages")
          BY <4>1 DEF pa
        <5>3. QED
          BY <4>1, <5>1, <5>2, MapsTable
    <3>4. nx + 1 = next_page + 2
      BY <1>0, <1>1, <1>6 DEF nx
    <3>5. QED
      BY <1>0, <1>6, <3>3, <3>4, UserGoesOn DEF m
  <2>5. CASE m # 2
    <3>1. 4 \in Directory(m) /\ Directory(m + 1) = Directory(m) /\ MemLen(m + 1) = a + 1
      BY <1>6, <2>5 DEF Directory, MemLen, a
    <3>2. /\ kpc' = "user_pages" /\ next_page' = Base + MemLen(m + 1)
          /\ Laid(space', Base, image, m + 1)
      <4> DEFINE va == USER_BASE + U
                 a1 == a + 1
      <4> HIDE DEF va, a1
      <4>1. /\ va \div PageEntries \in Directory(m)
            /\ MapEntry(m + 1, Base) = Entry(va, 1, next_page, user)
            /\ MemLen(m + 1) = a1
            /\ a1 \in Nat /\ nx = Base + a1
            /\ Build(map_page(Built(nx, T, Maps(m, Base), Mems(a1, Base, image), p),
                              va, 1, next_page, user), "user_pages")
        BY <1>8, <1>9, <2>2, <2>3, <3>1, Zenon DEF va, a1
      <4>2. QED
        BY <1>0, <1>3, <1>6, <3>1, <4>1, MapsInTable
    <3>3. next_page' <= FreeRamEnd
      BY <2>2, <3>1, <3>2
    <3>4. QED
      BY <1>0, <1>6, <3>2, <3>3, UserGoesOn DEF m
  <2>6. QED
    BY <2>4, <2>5
<1>11. CASE ~(next_page + 1 <= FreeRamEnd)
  <2> DEFINE M == Maps(m, Base)
             A == Mems(a, Base, image)
             va == USER_BASE + U
  <2> HIDE DEF M, A, va
  <2>1. next_page + 1 > FreeRamEnd
    BY <1>0, <1>1, <1>6, <1>11, FreeRamEndIs
  <2>2. PICK q : Failed(q) /\ alloc_pages(Built(next_page, T, M, A, p), what) = Built(next_page, T, M, A, q)
    BY <2>1, AllocPanics
  <2>3. Build(map_page(Built(next_page, T, M, A, q), va, 1, next_page, user), "user_pages")
    BY <1>3, <1>4, <2>2, Zenon DEF M, A, va
  <2>4. kpc' = "panic"
    BY <2>2, <2>3, MapPanics
  <2>5. Exhausted
    BY <1>0, <1>1, <1>6, <2>1, FreeRamEndIs DEF Exhausted
  <2>6. QED
    BY <1>0, <2>4, <2>5, Panics
<1>12. QED
  BY <1>10, <1>11

\* The first free slot is the one behind the processes there are.
LEMMA FirstFree ==
  ASSUME Layout, kpc = "user_pages"
  PROVE  Made \in {0, 1} /\ Min(Unused) = Made
<1>1. Made \in {0, 1} /\ (Made = 1 <=> image # 0)
  BY DEF Made
<1>2. DOMAIN procs = 0 .. 7
  BY DEF Layout, Processes
<1>3. ASSUME NEW k \in 0 .. 7 PROVE procs[k].state = "unused" <=> k >= Made
  <2>1. CASE k >= Made
    <3>1. procs[k] = FreeSlot
      BY <2>1 DEF Layout, Processes
    <3>2. QED
      BY <2>1, <3>1 DEF FreeSlot
  <2>2. CASE ~(k >= Made)
    <3>1. k = 0 /\ Made = 1
      BY <1>1, <2>2
    <3>2. procs[0].state = "runnable"
      BY <3>1 DEF Layout, Processes
    <3>3. QED
      BY <2>2, <3>1, <3>2
  <2>3. QED
    BY <2>1, <2>2
<1>4. Unused = {k \in 0 .. 7 : k >= Made}
  BY <1>2, <1>3 DEF Unused
<1>5. Made \in Unused /\ \A y \in Unused : Made <= y
  BY <1>1, <1>4
<1>6. ASSUME NEW x \in Unused, \A y \in Unused : x <= y PROVE x = Made
  BY <1>1, <1>4, <1>5, <1>6
<1>7. QED
  BY <1>1, <1>5, <1>6 DEF Min

LEMMA SlotStep ==
  ASSUME Layout, TakeSlot
  PROVE  Layout'
<1> DEFINE m == Len(space.map)
<1>0. /\ kpc = "user_pages" /\ UNCHANGED <<build, next_page>> /\ space' = NoSpace
      /\ Base \in Nat /\ image \in Nat /\ build.free_ram \in Nat
      /\ build.shell_pages \in Nat /\ build.shell_pages # 0
  BY BaseFacts DEF TakeSlot
<1>1. /\ Laid(space, Base, image, m) /\ next_page = Base + MemLen(m) /\ next_page <= FreeRamEnd
      /\ m \in 2 .. Finished(image) /\ Finished(image) \in Nat
  BY <1>0, BaseFacts DEF Layout, Construction
<1>2. UserMapped >= image /\ USER_BASE + UserMapped >= StackTop
  BY DEF TakeSlot
<1> HIDE DEF m
<1>3. m \in Nat /\ m >= 2
  BY <1>1
<1>4. UserMapped = m - 2
  BY <1>1, <1>3, UserMappedIs
<1>5. m - 2 >= 4
  BY <1>2, <1>3, <1>4, SMT DEF USER_BASE, StackTop
<1>6. m = Finished(image)
  BY <1>0, <1>1, <1>2, <1>3, <1>4, <1>5 DEF Finished
<1>7. Made \in {0, 1} /\ Min(Unused) = Made /\ (Made = 0 <=> image = 0)
  BY <1>0, FirstFree DEF Made
<1> DEFINE taken == [state |-> "runnable", space |-> space, pid |-> IF image = 0 THEN 0 ELSE Made + 1]
<1>8. procs' = [procs EXCEPT ![Made] = taken]
  BY <1>7 DEF TakeSlot
<1>9. taken.state = "runnable" /\ taken.space = space /\ taken.pid = IF image = 0 THEN 0 ELSE Made + 1
  OBVIOUS
<1> HIDE DEF taken
<1>10. procs = [k \in 0 .. 7 |-> procs[k]]
  BY DEF Layout, Processes
<1>11. /\ procs' = [k \in 0 .. 7 |-> procs'[k]] /\ procs'[Made] = taken
       /\ \A k \in 0 .. 7 : k # Made => procs'[k] = procs[k]
  <2>1. DOMAIN procs = 0 .. 7 /\ Made \in 0 .. 7
    BY <1>7, <1>10
  <2>2. procs' = [k \in 0 .. 7 |-> IF k = Made THEN taken ELSE procs[k]]
    BY <1>8, <2>1, Zenon
  <2>3. procs'[Made] = taken /\ \A k \in 0 .. 7 : k # Made => procs'[k] = procs[k]
    BY <2>1, <2>2
  <2>4. procs' = [k \in 0 .. 7 |-> procs'[k]]
    BY <2>2, Zenon
  <2>5. QED
    BY <2>3, <2>4
<1>12. CASE image = 0
  <2>1. image' = build.shell_pages /\ kpc' = "create"
    BY <1>12 DEF TakeSlot
  <2>2. Made = 0 /\ Made' = 1
    BY <1>0, <1>7, <1>12, <2>1 DEF Made
  <2>3. m = 6 /\ MemLen(m) = 8
    BY <1>6, <1>12 DEF Finished, MemLen
  <2>4. KernelTypes'
    BY <1>0, <2>1 DEF Layout, KernelTypes, Stages
  <2>5. Processes'
    <3>1. \A k \in 0 .. 7 : k >= 1 => procs'[k] = FreeSlot
      BY <1>11, <2>2 DEF Layout, Processes
    <3>2. procs'[0].state = "runnable" /\ procs'[0].pid = 0
      BY <1>9, <1>11, <1>12, <2>2
    <3>3. Laid(procs'[0].space, build.free_ram, 0, 6)
      BY <1>1, <1>9, <1>11, <1>12, <2>2, <2>3 DEF Base
    <3>4. QED
      BY <1>0, <1>11, <2>2, <3>1, <3>2, <3>3 DEF Processes
  <2>6. Base' = next_page
    BY <1>0, <1>1, <1>12, <2>1, <2>3 DEF Base
  <2>7. Construction'
    BY <1>0, <2>1, <2>6 DEF Construction
  <2>8. QED
    BY <2>4, <2>5, <2>7 DEF Layout
<1>13. CASE image # 0
  <2>1. image' = image /\ kpc' = "enter" /\ image = build.shell_pages
    BY <1>13 DEF TakeSlot, Layout, KernelTypes
  <2>2. Made = 1 /\ Made' = 2
    BY <1>7, <1>13, <2>1 DEF Made
  <2>3. KernelTypes'
    BY <1>0, <2>1 DEF Layout, KernelTypes, Stages
  <2>4. Processes'
    <3>1. \A k \in 0 .. 7 : k >= 2 => procs'[k] = FreeSlot
      BY <1>11, <2>2 DEF Layout, Processes
    <3>2. procs'[1].state = "runnable" /\ procs'[1].pid = 2
      BY <1>9, <1>11, <1>13, <2>2
    <3>3. Laid(procs'[1].space, build.free_ram + 8, build.shell_pages, Finished(build.shell_pages))
      BY <1>1, <1>6, <1>9, <1>11, <1>13, <2>1, <2>2 DEF Base
    <3>4. /\ procs'[0].state = "runnable" /\ procs'[0].pid = 0
          /\ Laid(procs'[0].space, build.free_ram, 0, 6)
      BY <1>11, <2>2 DEF Layout, Processes
    <3>5. QED
      BY <1>0, <1>11, <2>2, <3>1, <3>2, <3>3, <3>4 DEF Processes
  <2>5. Base' = Base
    BY <1>0, <2>1 DEF Base
  <2>6. Construction'
    BY <1>0, <1>1, <1>6, <2>1, <2>5 DEF Construction
  <2>7. QED
    BY <2>3, <2>4, <2>6 DEF Layout
<1>14. QED
  BY <1>12, <1>13

-----------------------------------------------------------------------------
(* The whole kernel.                                                       *)

LEMMA LayoutInit == Init => Layout
<1> SUFFICES ASSUME Init PROVE Layout
  OBVIOUS
<1>1. kpc = "boot" /\ image = 0 /\ space = NoSpace /\ next_page = build.free_ram
  BY DEF Init, KernelInit
<1>2. procs = [k \in 0 .. 7 |-> FreeSlot]
  BY DEF Init, KernelInit, PROCS_MAX, FreeSlot
<1>3. KernelTypes
  BY <1>1 DEF Init, KernelInit, KernelTypes, Stages
<1>4. Made = 0 /\ Base = build.free_ram
  BY <1>1 DEF Made, Base
<1>5. Processes
  BY <1>2, <1>4 DEF Processes
<1>6. Construction
  BY <1>1, <1>4 DEF Construction
<1>7. QED
  BY <1>3, <1>5, <1>6 DEF Layout

LEMMA KernelSame ==
  ASSUME Layout, UNCHANGED kernelVars
  PROVE  Layout'
<1>1. /\ kpc' = kpc /\ build' = build /\ next_page' = next_page /\ procs' = procs
      /\ image' = image /\ space' = space
  BY DEF kernelVars
<1>2. Made' = Made /\ Base' = Base
  BY <1>1 DEF Made, Base
<1>3. KernelTypes' /\ Processes'
  BY <1>1, <1>2 DEF Layout, KernelTypes, Processes
<1>4. Construction'
  BY <1>1, <1>2 DEF Layout, Construction
<1>5. QED
  BY <1>3, <1>4 DEF Layout

LEMMA LayoutStep == Layout /\ [Next]_vars => Layout'
<1> SUFFICES ASSUME Layout, [Next]_vars PROVE Layout'
  OBVIOUS
<1>1. CASE BootKernel
  <2>1. kpc = "boot" /\ kpc' = "create" /\ image' = 0 /\ image = 0
        /\ UNCHANGED <<build, next_page, procs, space>>
    BY <1>1 DEF BootKernel, Layout, KernelTypes
  <2>2. Made' = Made /\ Base' = Base
    BY <2>1 DEF Made, Base
  <2>3. KernelTypes' /\ Processes'
    BY <2>1, <2>2 DEF Layout, KernelTypes, Stages, Processes
  <2>4. Construction'
    BY <2>1, <2>2 DEF Layout, Construction
  <2>5. QED
    BY <2>3, <2>4 DEF Layout
<1>2. CASE EnterShell
  <2>1. kpc = "enter" /\ kpc' = "user" /\ UNCHANGED <<build, next_page, procs, image, space>>
    BY <1>2 DEF EnterShell
  <2>2. Made' = Made /\ Base' = Base
    BY <2>1 DEF Made, Base
  <2>3. KernelTypes' /\ Processes'
    BY <2>1, <2>2 DEF Layout, KernelTypes, Stages, Processes
  <2>4. Construction'
    BY <2>1, <2>2 DEF Layout, Construction
  <2>5. QED
    BY <2>3, <2>4 DEF Layout
<1>3. CASE UNCHANGED kernelVars
  BY <1>3, KernelSame
<1>4. CASE StartShell \/ Stopped \/ UNCHANGED vars
  <2>1. UNCHANGED kernelVars
    BY <1>4 DEF StartShell, Stopped, vars, kernelVars
  <2>2. QED
    BY <2>1, KernelSame
<1>5. QED
  BY <1>1, <1>2, <1>3, <1>4, CreateStep, HighStep, LowStep, UserStep, SlotStep DEF Next, KernelNext

LEMMA LayoutInvariant == Spec => []Layout
  BY LayoutInit, LayoutStep, PTL DEF Spec

-----------------------------------------------------------------------------
(* Address spaces.                                                         *)

LEMMA UserEntries ==
  ASSUME NEW base \in Nat, NEW m \in Nat, NEW x \in 1 .. m
  PROVE  MapEntry(x, base).user =>
           x >= 3 /\ MapEntry(x, base).pa = base + (IF x = 3 THEN 3 ELSE x + 1)
<1>1. CASE x = 1
  BY <1>1, Zenon DEF MapEntry
<1>2. CASE x = 2
  <2>1. 2 # 1
    OBVIOUS
  <2>2. QED
    BY <1>2, <2>1, Zenon DEF MapEntry
<1>3. CASE x >= 3
  <2>1. x # 1 /\ x # 2
    BY <1>3
  <2>2. MapEntry(x, base).pa = base + (IF x = 3 THEN 3 ELSE x + 1)
    BY <2>1, Zenon DEF MapEntry
  <2>3. QED
    BY <1>3, <2>2
<1>4. QED
  BY <1>1, <1>2, <1>3

LEMMA LaidPages ==
  ASSUME NEW s, NEW base \in Nat, NEW img \in Nat, NEW m \in Nat, Laid(s, base, img, m)
  PROVE  /\ DOMAIN s.mem = 1 .. MemLen(m) /\ MemLen(m) \in Nat
         /\ \A x \in DOMAIN s.mem : s.mem[x].page = base + (x - 1)
<1>1. s.mem = [x \in 1 .. MemLen(m) |-> MemEntry(x, base, img)]
  BY DEF Laid
<1>2. QED
  BY <1>1 DEF MemEntry, MemLen

\* In one space, each user range is a frame of its own.
LEMMA LaidSeparate ==
  ASSUME NEW s, NEW base \in Nat, NEW img \in Nat, NEW m \in Nat, Laid(s, base, img, m),
         NEW r \in Range(s.map), r.user
  PROVE  /\ \E e \in Range(s.mem) : e.page = r.pa /\ e.what \in {"image", "stack"}
         /\ \A t \in Range(s.map) : t.user /\ t.pa = r.pa => t = r
<1>1. /\ Range(s.map) = {MapEntry(x, base) : x \in 1 .. m}
      /\ DOMAIN s.mem = 1 .. MemLen(m)
      /\ \A x \in 1 .. MemLen(m) : s.mem[x] = MemEntry(x, base, img) /\ s.mem[x] \in Range(s.mem)
  BY DEF Laid, Range
<1>2. PICK x \in 1 .. m : r = MapEntry(x, base)
  BY <1>1
<1>3. x >= 3 /\ r.pa = base + (IF x = 3 THEN 3 ELSE x + 1)
  BY <1>2, UserEntries
<1>4. \E e \in Range(s.mem) : e.page = r.pa /\ e.what \in {"image", "stack"}
  <2> DEFINE y == IF x = 3 THEN 4 ELSE x + 2
  <2>1. /\ y \in 1 .. MemLen(m) /\ base + (y - 1) = r.pa
        /\ y # 1 /\ y \notin {2, 3, 5}
    BY <1>3 DEF MemLen
  <2> HIDE DEF y
  <2>2. MemEntry(y, base, img).page = r.pa /\ MemEntry(y, base, img).what \in {"image", "stack"}
    BY <2>1, Zenon DEF MemEntry
  <2>3. QED
    BY <1>1, <2>1, <2>2
<1>5. ASSUME NEW t \in Range(s.map), t.user, t.pa = r.pa PROVE t = r
  <2>1. PICK z \in 1 .. m : t = MapEntry(z, base)
    BY <1>1
  <2>2. z >= 3 /\ t.pa = base + (IF z = 3 THEN 3 ELSE z + 1)
    BY <1>5, <2>1, UserEntries
  <2>3. z = x
    BY <1>3, <1>5, <2>2
  <2>4. QED
    BY <1>2, <2>1, <2>3
<1>6. QED
  BY <1>4, <1>5

\* What is known of the space of a process, however many there are.
LEMMA SpaceOfProcess ==
  ASSUME Layout, NEW k \in 0 .. 7
  PROVE  \/ k >= Made /\ procs[k].space = NoSpace
         \/ k < Made /\ k = 0 /\ Laid(procs[k].space, build.free_ram, 0, 6)
         \/ /\ k < Made /\ k = 1
            /\ Laid(procs[k].space, build.free_ram + 8, build.shell_pages, Finished(build.shell_pages))
<1>1. Made \in {0, 1, 2}
  BY DEF Made
<1>2. CASE k >= Made
  BY <1>2 DEF Layout, Processes, FreeSlot
<1>3. CASE k < Made
  <2>1. k = 0 \/ (k = 1 /\ Made = 2)
    BY <1>1, <1>3
  <2>2. QED
    BY <1>1, <1>3, <2>1 DEF Layout, Processes
<1>4. QED
  BY <1>1, <1>2, <1>3

LEMMA FinishedNat == \A img \in Nat : Finished(img) \in Nat
  BY DEF Finished

(* Whatever the sizes of kernel and shell, and also if the kernel runs out *)
(* of memory: no process can use a page of the kernel, of a page table or  *)
(* of another process at user privilege, and no page is used twice.        *)
THEOREM SpacesSeparate == Spec => []AddressSpacesSeparate
<1>1. ASSUME Layout PROVE AddressSpacesSeparate
  <2>0. /\ DOMAIN procs = 0 .. 7 /\ build.free_ram \in Nat /\ build.shell_pages \in Nat
        /\ build.free_ram + 8 \in Nat /\ Finished(build.shell_pages) \in Nat /\ 0 \in Nat /\ 6 \in Nat
    BY <1>1, BaseFacts, FinishedNat DEF Layout, Processes
  <2> DEFINE Mem(k) == procs[k].space.mem
             Map(k) == procs[k].space.map
  <2>1. ASSUME NEW k \in 0 .. 7, NEW r \in Range(Map(k)), r.user
        PROVE  /\ \E e \in Range(Mem(k)) : e.page = r.pa /\ e.what \in {"image", "stack"}
               /\ \A t \in Range(Map(k)) : t.user /\ t.pa = r.pa => t = r
    <3>1. procs[k].space # NoSpace
      <4>1. SUFFICES ASSUME procs[k].space = NoSpace PROVE FALSE
        OBVIOUS
      <4>2. Map(k) = << >>
        BY <4>1 DEF NoSpace
      <4>3. QED
        BY <2>1, <4>2 DEF Range
    <3>2. CASE Laid(procs[k].space, build.free_ram, 0, 6)
      BY <2>0, <2>1, <3>2, LaidSeparate
    <3>3. CASE Laid(procs[k].space, build.free_ram + 8, build.shell_pages, Finished(build.shell_pages))
      BY <2>0, <2>1, <3>3, LaidSeparate
    <3>4. QED
      BY <1>1, <3>1, <3>2, <3>3, SpaceOfProcess
  <2>2. ASSUME NEW j \in 0 .. 7, NEW k \in 0 .. 7, NEW x \in DOMAIN Mem(j), NEW y \in DOMAIN Mem(k),
               Mem(j)[x].page = Mem(k)[y].page
        PROVE  j = k /\ x = y
    <3>1. ASSUME NEW i \in 0 .. 7, NEW z \in DOMAIN Mem(i)
          PROVE  \/ i = 0 /\ z \in 1 .. 8 /\ Mem(i)[z].page = build.free_ram + (z - 1)
                 \/ i = 1 /\ z \in Nat /\ z >= 1 /\ Mem(i)[z].page = build.free_ram + 8 + (z - 1)
      <4>1. CASE procs[i].space = NoSpace
        BY <3>1, <4>1 DEF NoSpace
      <4>2. CASE i = 0 /\ Laid(procs[i].space, build.free_ram, 0, 6)
        <5>1. MemLen(6) = 8
          BY DEF MemLen
        <5>2. /\ DOMAIN Mem(i) = 1 .. MemLen(6)
              /\ \A x1 \in DOMAIN Mem(i) : Mem(i)[x1].page = build.free_ram + (x1 - 1)
          BY <2>0, <4>2, LaidPages, ZenonT(60)
        <5> HIDE DEF Mem
        <5>3. QED
          BY <3>1, <4>2, <5>1, <5>2
      <4>3. CASE i = 1 /\ Laid(procs[i].space, build.free_ram + 8, build.shell_pages, Finished(build.shell_pages))
        <5>1. /\ DOMAIN Mem(i) = 1 .. MemLen(Finished(build.shell_pages))
              /\ MemLen(Finished(build.shell_pages)) \in Nat
              /\ \A x1 \in DOMAIN Mem(i) : Mem(i)[x1].page = (build.free_ram + 8) + (x1 - 1)
          <6> DEFINE base == build.free_ram + 8
                     m == Finished(build.shell_pages)
                     img == build.shell_pages
                     sp == procs[i].space
          <6>1. base \in Nat /\ m \in Nat /\ img \in Nat /\ Laid(sp, base, img, m)
            BY <2>0, <4>3
          <6> HIDE DEF base, m, img, sp
          <6>2. /\ DOMAIN sp.mem = 1 .. MemLen(m) /\ MemLen(m) \in Nat
                /\ \A x1 \in DOMAIN sp.mem : sp.mem[x1].page = base + (x1 - 1)
            BY <6>1, LaidPages
          <6>3. QED
            BY <6>2 DEF base, m, sp
        <5> HIDE DEF Mem
        <5>2. QED
          BY <3>1, <4>3, <5>1
      <4>4. QED
        BY <1>1, <4>1, <4>2, <4>3, SpaceOfProcess
    <3>2. QED
      BY <2>0, <2>2, <3>1, SMTT(30)
  <2>3. QED
    BY <2>0, <2>1, <2>2 DEF AddressSpacesSeparate
<1>2. Layout => AddressSpacesSeparate
  BY <1>1
<1>3. QED
  BY <1>2, LayoutInvariant, PTL

-----------------------------------------------------------------------------
(* The VMM's page tables.                                                  *)

LEMMA LowPages ==
  ASSUME RoomBelowTables, Layout
  PROVE  /\ build.free_ram + 8 + MemLen(Finished(build.shell_pages)) <= 256
         /\ build.free_ram + 8 <= 256
         /\ kpc # "panic" => next_page \in Nat /\ next_page <= 256
<1>1. /\ build.free_ram \in FreeRams /\ build.shell_pages \in ShellSizes
      /\ build.free_ram \in Nat /\ build.shell_pages \in Nat /\ image \in Nat
      /\ image \in {0, build.shell_pages}
  BY BaseFacts DEF Layout, KernelTypes
<1>2. build.free_ram + 8 + MemLen(Finished(build.shell_pages)) <= 256
  BY <1>1, SMT DEF RoomBelowTables
<1>3. MemLen(Finished(build.shell_pages)) \in Nat
  BY <1>1 DEF MemLen, Finished
<1>4. build.free_ram + 8 <= 256
  BY <1>1, <1>2, <1>3
<1>5. Base + MemLen(Finished(image)) <= 256 /\ Base \in Nat /\ Base <= 256
  <2>1. CASE image = 0
    BY <1>1, <1>4, <2>1 DEF Base, Finished, MemLen
  <2>2. CASE image # 0
    BY <1>1, <1>2, <1>4, <2>2 DEF Base
  <2>3. QED
    BY <2>1, <2>2
<1>a. MemLen(Finished(image)) \in Nat /\ MemLen(Finished(image)) >= 8 /\ MemLen(0) = 1 /\ MemLen(1) = 2
  BY <1>1 DEF Finished, MemLen
<1>6. ASSUME kpc # "panic" PROVE next_page \in Nat /\ next_page <= 256
  <2>1. CASE kpc \in {"boot", "create"}
    BY <1>5, <2>1 DEF Layout, Construction
  <2>2. CASE kpc = "high"
    <3>1. next_page = Base + MemLen(0)
      BY <2>2 DEF Layout, Construction
    <3>2. QED
      BY <1>5, <1>a, <3>1
  <2>3. CASE kpc = "low"
    <3>1. next_page = Base + MemLen(1)
      BY <2>3 DEF Layout, Construction
    <3>2. QED
      BY <1>5, <1>a, <3>1
  <2>4. CASE kpc = "user_pages"
    <3> DEFINE m == Len(space.map)
    <3>1. next_page = Base + MemLen(m) /\ m \in 2 .. Finished(image)
      BY <2>4 DEF Layout, Construction
    <3> HIDE DEF m
    <3>2. QED
      BY <1>1, <1>5, <3>1 DEF Finished, MemLen
  <2>5. CASE kpc \in {"enter", "user"}
    BY <1>5, <1>a, <2>5 DEF Layout, Construction
  <2>6. QED
    BY <1>6, <2>1, <2>2, <2>3, <2>4, <2>5 DEF Layout, KernelTypes, Stages
<1>7. QED
  BY <1>2, <1>4, <1>6

NoPanic == kpc # "panic"

LEMMA NoPanicStep ==
  ASSUME RoomBelowTables, Layout, NoPanic, [Next]_vars
  PROVE  NoPanic'
<1> USE DEF NoPanic
<1>1. ASSUME Exhausted PROVE kpc' # "panic"
  BY <1>1, LowPages, FreeRamEndIs DEF Exhausted
<1>2. CASE create_process \/ MapKernel \/ MapIdentity \/ MapUser
  BY <1>1, <1>2, CreateStep, HighStep, LowStep, UserStep
<1>3. CASE BootKernel \/ TakeSlot \/ EnterShell
  BY <1>3 DEF BootKernel, TakeSlot, EnterShell
<1>4. CASE UNCHANGED kernelVars
  BY <1>4 DEF kernelVars
<1>5. CASE StartShell \/ Stopped \/ UNCHANGED vars
  BY <1>5 DEF StartShell, Stopped, vars
<1>6. QED
  BY <1>2, <1>3, <1>4, <1>5 DEF Next, KernelNext

(* If kernel and shell leave the allocator enough pages below the VMM's    *)
(* page tables, as the build does, it never hands out and clears a page of *)
(* them, and the kernel does not run out of memory.                        *)
THEOREM TablesSurvive ==
  ASSUME RoomBelowTables
  PROVE  Spec => [](BootTablesAlive /\ NoPanic)
<1>1. ASSUME Layout, NoPanic PROVE BootTablesAlive
  <2>0. /\ DOMAIN procs = 0 .. 7 /\ build.free_ram \in Nat /\ build.shell_pages \in Nat
        /\ build.free_ram + 8 \in Nat /\ Finished(build.shell_pages) \in Nat
        /\ Base \in Nat /\ image \in Nat /\ 0 \in Nat /\ 6 \in Nat
    BY <1>1, BaseFacts, FinishedNat DEF Layout, Processes
  <2>1. ASSUME NEW s, NEW base \in Nat, NEW img \in Nat, NEW m \in Nat, Laid(s, base, img, m),
               base + MemLen(m) <= 256, NEW e \in Range(s.mem)
        PROVE  e.page \notin BootTables
    <3>1. PICK x \in DOMAIN s.mem : e = s.mem[x]
      BY <2>1 DEF Range
    <3>2. x \in 1 .. MemLen(m) /\ MemLen(m) \in Nat /\ e.page = base + (x - 1)
      BY <2>1, <3>1, LaidPages
    <3>3. e.page < 256
      BY <2>1, <3>2
    <3>4. QED
      BY <2>1, <3>2, <3>3, SMT DEF BootTables
  <2>2. ASSUME NEW e \in Range(NoSpace.mem) PROVE FALSE
    BY <2>2 DEF NoSpace, Range
  <2>3. ASSUME NEW e \in Range(space.mem) PROVE e.page \notin BootTables
    <3>1. CASE kpc \in {"boot", "create", "enter", "user"}
      BY <1>1, <2>2, <2>3, <3>1 DEF Layout, Construction
    <3>2. CASE kpc \in {"high", "low", "user_pages"}
      <4> DEFINE m == Len(space.map)
      <4>1. Laid(space, Base, image, m) /\ m \in Nat /\ Base + MemLen(m) <= 256
        BY <1>1, <2>0, <3>2, LowPages, BaseFacts DEF Layout, Construction, NoPanic
      <4> HIDE DEF m
      <4>2. QED
        BY <2>0, <2>1, <2>3, <4>1
    <3>3. QED
      BY <1>1, <3>1, <3>2 DEF Layout, KernelTypes, Stages, NoPanic
  <2>4. ASSUME NEW k \in 0 .. 7, NEW e \in Range(procs[k].space.mem) PROVE e.page \notin BootTables
    <3>1. CASE procs[k].space = NoSpace
      BY <2>2, <2>4, <3>1
    <3>2. CASE Laid(procs[k].space, build.free_ram, 0, 6)
      <4>1. build.free_ram + MemLen(6) <= 256
        BY <1>1, <2>0, LowPages DEF MemLen
      <4>2. QED
        BY <2>0, <2>1, <2>4, <3>2, <4>1
    <3>3. CASE Laid(procs[k].space, build.free_ram + 8, build.shell_pages, Finished(build.shell_pages))
      <4>1. (build.free_ram + 8) + MemLen(Finished(build.shell_pages)) <= 256
        BY <1>1, LowPages
      <4>2. QED
        BY <2>0, <2>1, <2>4, <3>3, <4>1
    <3>4. QED
      BY <1>1, <3>1, <3>2, <3>3, SpaceOfProcess
  <2>5. QED
    BY <2>0, <2>3, <2>4 DEF BootTablesAlive
<1>2. Init => NoPanic
  BY DEF Init, KernelInit, NoPanic
<1>3. Layout /\ NoPanic /\ [Next]_vars => NoPanic'
  BY NoPanicStep
<1>4. QED
  BY <1>1, <1>2, <1>3, LayoutInvariant, PTL DEF Spec

-----------------------------------------------------------------------------
(* What the processor finds in the shell's address space.                  *)

LEMMA Places == KernelPage = 524288 /\ USER_BASE = 4096 /\ PageEntries = 1024
  BY SMT DEF KernelPage, USER_BASE, PageEntries

\* The fields of each range.
LEMMA EntryFields ==
  ASSUME NEW base \in Nat, NEW x \in Nat, x >= 1
  PROVE  /\ x = 1 => /\ MapEntry(x, base).va = KernelPage
                     /\ MapEntry(x, base).n = PageEntries /\ MapEntry(x, base).pa = 0
         /\ x = 2 => /\ MapEntry(x, base).va = 0
                     /\ MapEntry(x, base).n = PageEntries /\ MapEntry(x, base).pa = 0
         /\ x >= 3 => /\ MapEntry(x, base).va = USER_BASE + (x - 3)
                      /\ MapEntry(x, base).n = 1
                      /\ MapEntry(x, base).pa = base + (IF x = 3 THEN 3 ELSE x + 1)
<1>1. CASE x = 1
  BY <1>1 DEF MapEntry
<1>2. CASE x = 2
  BY <1>2 DEF MapEntry
<1>3. CASE x >= 3
  BY <1>3 DEF MapEntry
<1>4. QED
  BY <1>1, <1>2, <1>3

\* Which addresses it covers.
InRange(r, va) == r.va <= va /\ va < r.va + r.n

LEMMA Covered ==
  ASSUME NEW base \in Nat, NEW z \in Nat, z >= 1, NEW va \in Nat
  PROVE  /\ z = 1 => (InRange(MapEntry(z, base), va) <=> 524288 <= va /\ va < 525312)
         /\ z = 2 => (InRange(MapEntry(z, base), va) <=> va < 1024)
         /\ z >= 3 => (InRange(MapEntry(z, base), va) <=> va = 4096 + (z - 3))
<1> DEFINE r == MapEntry(z, base)
<1>1. ASSUME z = 1 PROVE InRange(r, va) <=> 524288 <= va /\ va < 525312
  <2>1. r.va = KernelPage /\ r.n = PageEntries
    BY <1>1, EntryFields
  <2>2. r.va = 524288 /\ r.n = 1024
    BY <2>1, Places, SMT
  <2> HIDE DEF r
  <2>3. QED
    BY <2>2, SMT DEF InRange
<1>2. ASSUME z = 2 PROVE InRange(r, va) <=> va < 1024
  <2>1. r.va = 0 /\ r.n = PageEntries
    BY <1>2, EntryFields
  <2>2. r.n = 1024
    BY <2>1, Places, SMT
  <2> HIDE DEF r
  <2>3. QED
    BY <2>1, <2>2, SMT DEF InRange
<1>3. ASSUME z >= 3 PROVE InRange(r, va) <=> va = 4096 + (z - 3)
  <2>1. r.va = USER_BASE + (z - 3) /\ r.n = 1
    BY <1>3, EntryFields
  <2>2. r.va = 4096 + (z - 3)
    BY <2>1, Places, SMT
  <2> HIDE DEF r
  <2>3. QED
    BY <2>1, <2>2, SMT DEF InRange
<1>4. QED
  BY <1>1, <1>2, <1>3

\* The frame behind an address that exactly one range covers.
LEMMA FramesOf ==
  ASSUME NEW s, NEW base, NEW img, NEW m \in Nat, Laid(s, base, img, m), NEW va,
         NEW x \in 1 .. m,
         \A z \in 1 .. m : InRange(MapEntry(z, base), va) <=> z = x
  PROVE  Frames(s, va) = {MapEntry(x, base).pa + (va - MapEntry(x, base).va)}
<1>1. Range(s.map) = {MapEntry(z, base) : z \in 1 .. m}
  BY DEF Laid, Range
<1>2. {r \in Range(s.map) : InRange(r, va)} = {MapEntry(x, base)}
  BY <1>1
<1>3. Frames(s, va) = {r.pa + (va - r.va) : r \in {t \in Range(s.map) : InRange(t, va)}}
  BY DEF Frames, InRange
<1>4. QED
  BY <1>2, <1>3

\* The shell's pages, as far as the allocator can have got.
LEMMA UserFrame ==
  ASSUME NEW s, NEW base \in Nat, NEW img, NEW m \in Nat, m <= 1023, Laid(s, base, img, m),
         NEW j \in Nat, j + 3 <= m
  PROVE  Frames(s, USER_BASE + j) = {base + (IF j = 0 THEN 3 ELSE j + 4)}
<1> DEFINE va == USER_BASE + j
           x == j + 3
<1>1. x \in 1 .. m /\ x >= 3 /\ va \in Nat
  BY Places, SMT
<1>a. va = 4096 + j /\ j <= 1020
  BY Places, SMT
<1> HIDE DEF va
<1>2. ASSUME NEW z \in 1 .. m
      PROVE  InRange(MapEntry(z, base), va) <=> z = x
  <2>1. CASE z = 1
    <3>1. InRange(MapEntry(z, base), va) <=> 524288 <= va /\ va < 525312
      BY <1>1, <2>1, Covered
    <3>2. QED
      BY <1>a, <2>1, <3>1, SMT
  <2>2. CASE z = 2
    <3>1. InRange(MapEntry(z, base), va) <=> va < 1024
      BY <1>1, <2>2, Covered
    <3>2. QED
      BY <1>a, <2>2, <3>1, SMT
  <2>3. CASE z >= 3
    <3>1. InRange(MapEntry(z, base), va) <=> va = 4096 + (z - 3)
      BY <1>1, <2>3, Covered
    <3>2. QED
      BY <1>a, <2>3, <3>1, SMT
  <2>4. QED
    BY <2>1, <2>2, <2>3
<1>3. MapEntry(x, base).pa + (va - MapEntry(x, base).va) = base + (IF j = 0 THEN 3 ELSE j + 4)
  <2>1. MapEntry(x, base).va = USER_BASE + (x - 3) /\ MapEntry(x, base).pa = base + (IF x = 3 THEN 3 ELSE x + 1)
    BY <1>1, EntryFields
  <2>2. MapEntry(x, base).va = va
    BY <1>a, <2>1, Places, SMT
  <2>3. QED
    BY <1>1, <2>1, <2>2, SMT
<1> HIDE DEF x
<1>4. Frames(s, va) = {MapEntry(x, base).pa + (va - MapEntry(x, base).va)}
  BY <1>1, <1>2, FramesOf
<1>5. QED
  BY <1>3, <1>4 DEF va

LEMMA KernelFrame ==
  ASSUME NEW s, NEW base \in Nat, NEW img, NEW m \in Nat, m >= 1, m <= 1023, Laid(s, base, img, m),
         NEW q \in Nat, q <= 1023
  PROVE  Frames(s, KernelPage + q) = {q}
<1> DEFINE va == KernelPage + q
<1>1. 1 \in 1 .. m /\ va \in Nat
  BY Places, SMT
<1>a. va = 524288 + q
  BY Places, SMT
<1> HIDE DEF va
<1>2. ASSUME NEW z \in 1 .. m
      PROVE  InRange(MapEntry(z, base), va) <=> z = 1
  <2>1. CASE z = 1
    <3>1. InRange(MapEntry(z, base), va) <=> 524288 <= va /\ va < 525312
      BY <1>1, <2>1, Covered
    <3>2. QED
      BY <1>a, <2>1, <3>1, SMT
  <2>2. CASE z = 2
    <3>1. InRange(MapEntry(z, base), va) <=> va < 1024
      BY <1>1, <2>2, Covered
    <3>2. QED
      BY <1>a, <2>2, <3>1, SMT
  <2>3. CASE z >= 3
    <3>1. InRange(MapEntry(z, base), va) <=> va = 4096 + (z - 3)
      BY <1>1, <2>3, Covered
    <3>2. QED
      BY <1>a, <2>3, <3>1, SMT
  <2>4. QED
    BY <2>1, <2>2, <2>3
<1>3. MapEntry(1, base).pa + (va - MapEntry(1, base).va) = q
  <2>1. MapEntry(1, base).va = KernelPage /\ MapEntry(1, base).pa = 0
    BY EntryFields
  <2>2. MapEntry(1, base).va = 524288
    BY <2>1, Places, SMT
  <2>3. QED
    BY <1>a, <2>1, <2>2, SMT
<1>4. Frames(s, va) = {MapEntry(1, base).pa + (va - MapEntry(1, base).va)}
  BY <1>1, <1>2, FramesOf
<1>5. QED
  BY <1>3, <1>4 DEF va

\* The pages of the image are the fourth and those from the sixth on.
ImagesIn(n, base, img) == {y \in 1 .. n : MemEntry(y, base, img).what = "image"}

LEMMA ImagePages ==
  ASSUME NEW base \in Nat, NEW img \in Nat \ {0}, NEW n \in Nat, NEW hi \in Nat, hi >= 5, hi <= img + 4,
         n >= 4, hi <= n \/ (hi = 5 /\ n = 4), n <= hi \/ hi = img + 4
  PROVE  Cardinality(ImagesIn(n, base, img)) = hi - 4
<1>1. ASSUME NEW y \in 1 .. n
      PROVE  MemEntry(y, base, img).what = "image" <=> y = 4 \/ (y >= 6 /\ y - 5 < img)
  <2>1. CASE y \in {1, 2, 3, 5}
    BY <2>1 DEF MemEntry
  <2>2. CASE y = 4
    BY <2>2 DEF MemEntry, UserOrdinal
  <2>3. CASE y >= 6
    BY <2>3 DEF MemEntry, UserOrdinal
  <2>4. QED
    BY <2>1, <2>2, <2>3
<1>2. ImagesIn(n, base, img) = {y \in 1 .. n : y = 4 \/ (y >= 6 /\ y - 5 < img)}
  BY <1>1 DEF ImagesIn
<1>3. {y \in 1 .. n : y = 4 \/ (y >= 6 /\ y - 5 < img)} = (6 .. hi) \cup {4}
  OBVIOUS
<1>4. IsFiniteSet(6 .. hi) /\ Cardinality(6 .. hi) = hi - 5
  BY FS_Interval
<1>5. 4 \notin 6 .. hi
  OBVIOUS
<1>6. Cardinality((6 .. hi) \cup {4}) = hi - 4
  <2>1. Cardinality((6 .. hi) \cup {4}) = Cardinality(6 .. hi) + 1
    BY <1>4, <1>5, FS_AddElement
  <2>2. QED
    BY <1>4, <2>1
<1>7. QED
  BY <1>2, <1>3, <1>6

\* kernel_main enters the second process.
LEMMA ShellIs ==
  ASSUME Layout, kpc = "user"
  PROVE  /\ Shell = procs[1]
         /\ Laid(procs[1].space, build.free_ram + 8, build.shell_pages, Finished(build.shell_pages))
<1>1. Made = 2
  BY DEF Made
<1>2. /\ DOMAIN procs = 0 .. 7 /\ procs[0].pid = 0 /\ procs[1].pid = 2
      /\ \A k \in 0 .. 7 : k >= 2 => procs[k] = FreeSlot
  BY <1>1 DEF Layout, Processes
<1>3. \A k \in DOMAIN procs : procs[k].pid = 2 <=> k = 1
  BY <1>2 DEF FreeSlot
<1>4. (CHOOSE k \in DOMAIN procs : procs[k].pid = 2) = 1
  BY <1>2, <1>3
<1>5. QED
  BY <1>1, <1>4 DEF Shell, Layout, Processes

\* The image is mapped in order, whatever its size.
ImageMapped ==
  kpc = "user" =>
    LET mem == Shell.space.mem
        Copied(x) == Cardinality({y \in 1 .. x : mem[y].what = "image"})
    IN /\ \A p \in 1 .. build.free_ram - 1 : Frames(Shell.space, KernelPage + p) = {p}
       /\ Copied(Len(mem)) = build.shell_pages
       /\ \A x \in DOMAIN mem : mem[x].what = "image" =>
            Frames(Shell.space, USER_BASE + Copied(x) - 1) = {mem[x].page}

LEMMA ImageIsMapped ==
  ASSUME Layout
  PROVE  ImageMapped
<1> SUFFICES ASSUME kpc = "user" PROVE ImageMapped
  BY DEF ImageMapped
<1> DEFINE s == Shell.space
           base == build.free_ram + 8
           img == build.shell_pages
           m == Finished(img)
           mem == s.mem
           Copied(x) == Cardinality({y \in 1 .. x : mem[y].what = "image"})
<1>1. Laid(s, base, img, m)
  BY ShellIs
<1>2. build.free_ram \in Nat /\ base \in Nat /\ img \in Nat /\ img # 0
  BY BaseFacts
<1>3. image = img /\ next_page = base + MemLen(m) /\ next_page <= 1023
  <2>1. image = img /\ next_page = Base + MemLen(Finished(image)) /\ next_page <= FreeRamEnd
    BY DEF Layout, KernelTypes, Construction
  <2>2. Base = base
    BY <1>2, <2>1 DEF Base
  <2>3. QED
    BY <2>1, <2>2, FreeRamEndIs
<1>4. m \in Nat /\ m >= 6 /\ m >= img + 2 /\ MemLen(m) = m + 2
  BY <1>2 DEF Finished, MemLen
<1> HIDE DEF m, s, base, img
<1>5. m <= 1023 /\ build.free_ram <= 1023
  BY <1>2, <1>3, <1>4 DEF base
<1>6. /\ mem = [x \in 1 .. m + 2 |-> MemEntry(x, base, img)]
      /\ DOMAIN mem = 1 .. m + 2 /\ Len(mem) = m + 2
      /\ \A x \in 1 .. m + 2 : mem[x] = MemEntry(x, base, img)
  BY <1>1, <1>4 DEF Laid
<1> HIDE DEF mem
<1>7. ASSUME NEW p \in 1 .. build.free_ram - 1 PROVE Frames(s, KernelPage + p) = {p}
  <2>1. p \in Nat /\ p <= 1023 /\ m >= 1
    BY <1>2, <1>4, <1>5
  <2>2. base \in Nat /\ m \in Nat /\ m <= 1023
    BY <1>2, <1>4, <1>5
  <2>3. QED
    BY <1>1, <2>1, <2>2, KernelFrame
<1>8. ASSUME NEW x \in 1 .. m + 2
      PROVE  Copied(x) = Cardinality(ImagesIn(x, base, img))
  <2>1. \A y \in 1 .. x : mem[y] = MemEntry(y, base, img)
    BY <1>4, <1>6
  <2>2. {y \in 1 .. x : mem[y].what = "image"} = {y \in 1 .. x : MemEntry(y, base, img).what = "image"}
    BY <2>1
  <2>3. QED
    BY <2>2 DEF ImagesIn
<1>9. Copied(Len(mem)) = img
  <2>1. Copied(m + 2) = (img + 4) - 4
    <3>1. m + 2 \in 1 .. m + 2 /\ m + 2 \in Nat
      BY <1>4
    <3>2. Cardinality(ImagesIn(m + 2, base, img)) = (img + 4) - 4
      <4> DEFINE n == m + 2
                 hi == img + 4
      <4>1. /\ n \in Nat /\ hi \in Nat /\ hi >= 5 /\ hi <= img + 4 /\ n >= 4 /\ hi <= n
            /\ hi = img + 4 /\ img \in Nat \ {0}
        BY <1>2, <1>4
      <4> HIDE DEF n, hi
      <4>2. Cardinality(ImagesIn(n, base, img)) = hi - 4
        BY <1>2, <4>1, ImagePages, SMTT(30)
      <4>3. QED
        BY <4>2 DEF n, hi
    <3>3. QED
      BY <1>8, <3>1, <3>2
  <2>2. (img + 4) - 4 = img
    BY <1>2
  <2>3. QED
    BY <1>6, <2>1, <2>2, Zenon
<1>10. ASSUME NEW x \in 1 .. m + 2, mem[x].what = "image"
       PROVE  Frames(s, USER_BASE + Copied(x) - 1) = {mem[x].page}
  <2>1. mem[x] = MemEntry(x, base, img)
    BY <1>6
  <2>2. x \notin {1, 2, 3, 5} /\ UserOrdinal(x) < img /\ mem[x].page = base + (x - 1)
    BY <1>10, <2>1 DEF MemEntry
  <2>3. x \in Nat /\ x >= 4 /\ (x = 4 \/ x >= 6)
    BY <1>4, <2>2
  <2> DEFINE hi == IF x = 4 THEN 5 ELSE x
             j == hi - 5
  <2>4. hi - 4 = j + 1 /\ j \in Nat /\ j < img /\ hi \in Nat
    BY <2>2, <2>3 DEF UserOrdinal
  <2>5. Copied(x) = j + 1
    <3>1. /\ img \in Nat \ {0} /\ hi >= 5 /\ hi <= img + 4 /\ x >= 4
          /\ (hi <= x \/ (hi = 5 /\ x = 4)) /\ (x <= hi \/ hi = img + 4)
      BY <1>2, <2>3, <2>4
    <3> HIDE DEF hi, j
    <3>2. Cardinality(ImagesIn(x, base, img)) = hi - 4
      <4> DEFINE n == x
      <4>1. /\ img \in Nat \ {0} /\ hi >= 5 /\ hi <= img + 4 /\ n >= 4 /\ base \in Nat
            /\ n \in Nat /\ hi \in Nat /\ (hi <= n \/ (hi = 5 /\ n = 4)) /\ (n <= hi \/ hi = img + 4)
        BY <1>2, <2>3, <2>4, <3>1
      <4> HIDE DEF n
      <4>2. Cardinality(ImagesIn(n, base, img)) = hi - 4
        BY <4>1, ImagePages
      <4>3. QED
        BY <4>2 DEF n
    <3>3. QED
      BY <1>8, <2>4, <3>2
  <2>6. base + (IF j = 0 THEN 3 ELSE j + 4) = base + (x - 1)
    BY <2>3
  <2> HIDE DEF hi, j
  <2>7. j + 3 <= m
    BY <1>2, <1>4, <2>4
  <2>8. Frames(s, USER_BASE + j) = {base + (x - 1)}
    BY <1>1, <1>2, <1>4, <1>5, <2>4, <2>6, <2>7, UserFrame
  <2>9. USER_BASE + Copied(x) - 1 = USER_BASE + j
    BY <2>4, <2>5, Places, SMT
  <2>10. QED
    BY <2>2, <2>8, <2>9
<1>11. QED
  BY <1>6, <1>7, <1>9, <1>10 DEF ImageMapped, s, img, mem

(* If the shell has room for its 8 KB of stack below StackTop: when CR3 is *)
(* loaded the kernel goes on in the same page, the image is mapped in      *)
(* order and the stack behind it is mapped.                                *)
THEOREM ShellIsMapped ==
  ASSUME StackFits
  PROVE  Spec => []ShellMapped
<1>1. ASSUME Layout PROVE ShellMapped
  <2> SUFFICES ASSUME kpc = "user" PROVE ShellMapped
    BY DEF ShellMapped
  <2>1. ASSUME NEW va \in ShellStack PROVE Frames(Shell.space, va) # {}
    <3> DEFINE base == build.free_ram + 8
               img == build.shell_pages
               j == va - USER_BASE
    <3>1. /\ Laid(Shell.space, base, img, Finished(img)) /\ base \in Nat /\ img \in Nat /\ img <= 2
          /\ img # 0
      BY <1>1, ShellIs, BaseFacts DEF StackFits, Layout, KernelTypes
    <3>2. Finished(img) = 6
      BY <3>1 DEF Finished
    <3>3. /\ va \in Int /\ USER_BASE + img <= va /\ va <= USER_BASE + img + 1
      BY <2>1, <3>1, Places, SMT DEF ShellStack
    <3>4. j \in Nat /\ j + 3 <= 6 /\ USER_BASE + j = va
      BY <3>1, <3>3, Places, SMT
    <3> HIDE DEF base, img, j
    <3>5. Laid(Shell.space, base, img, 6) /\ 6 \in Nat /\ 6 <= 1023
      BY <3>1, <3>2
    <3>6. Frames(Shell.space, USER_BASE + j) = {base + (IF j = 0 THEN 3 ELSE j + 4)}
      BY <3>1, <3>4, <3>5, UserFrame
    <3>7. QED
      BY <3>4, <3>6
  <2>2. ImageMapped
    BY <1>1, ImageIsMapped
  <2>3. QED
    BY <2>1, <2>2 DEF ShellMapped, ImageMapped
<1>2. QED
  BY <1>1, LayoutInvariant, PTL

-----------------------------------------------------------------------------
(* The kernel comes up.                                                    *)

\* How many steps of kernel_main are left, for the process that is being
\* created and for what follows it.
Creation(img) == Finished(img) + 2
Later == IF image = 0 THEN Creation(build.shell_pages) + 1 ELSE 1
BootWork ==
  IF kpc = "boot" THEN Creation(0) + Creation(build.shell_pages) + 2
  ELSE IF kpc = "create" THEN Creation(image) + Later
  ELSE IF kpc \in {"high", "low", "user_pages"} THEN (Creation(image) - Len(space.map)) + Later - 1
  ELSE IF kpc = "enter" THEN 1
  ELSE 0

LEMMA MapLength ==
  ASSUME Layout, kpc \in {"high", "low", "user_pages"}
  PROVE  Len(space.map) \in 0 .. Finished(image)
<1>1. Len(space.map) = 0 \/ Len(space.map) = 1 \/ Len(space.map) \in 2 .. Finished(image)
  BY DEF Layout, Construction
<1>2. Finished(image) \in Nat /\ Finished(image) >= 6
  BY BaseFacts DEF Finished
<1> DEFINE n == Len(space.map)
           f == Finished(image)
<1> HIDE DEF n, f
<1>3. n = 0 \/ n = 1 \/ n \in 2 .. f
  BY <1>1 DEF n, f
<1>4. n \in 0 .. f
  BY <1>2, <1>3 DEF f
<1>5. QED
  BY <1>4 DEF n, f

LEMMA BootFacts ==
  ASSUME Layout
  PROVE  /\ Creation(0) = 8 /\ Creation(image) \in Nat /\ Creation(build.shell_pages) \in Nat
         /\ Creation(image) = Finished(image) + 2
         /\ Later \in Nat /\ Later >= 1
         /\ kpc \in {"high", "low", "user_pages"} => Len(space.map) \in 0 .. Finished(image)
<1>1. image \in Nat /\ build.shell_pages \in Nat
  BY BaseFacts
<1>2. /\ Creation(0) = 8 /\ Creation(image) \in Nat /\ Creation(build.shell_pages) \in Nat
      /\ Creation(image) = Finished(image) + 2 /\ Finished(image) >= 6
  BY <1>1 DEF Creation, Finished
<1>3. Later \in Nat /\ Later >= 1
  BY <1>2 DEF Later
<1>4. kpc \in {"high", "low", "user_pages"} => Len(space.map) \in 0 .. Finished(image)
  BY <1>1, <1>2, MapLength
<1>5. QED
  BY <1>2, <1>3, <1>4

LEMMA BootWorkNat == Layout => BootWork \in Nat
<1> SUFFICES ASSUME Layout PROVE BootWork \in Nat
  OBVIOUS
<1>1. kpc \in {"high", "low", "user_pages"} =>
        (Creation(image) - Len(space.map)) + Later - 1 \in Nat
  <2> DEFINE c == Creation(image)
             n == Len(space.map)
             l == Later
             f == Finished(image)
  <2>1. /\ c \in Nat /\ l \in Nat /\ l >= 1 /\ f \in Nat /\ c = f + 2
        /\ kpc \in {"high", "low", "user_pages"} => n \in 0 .. f
    BY BootFacts, BaseFacts
  <2> HIDE DEF c, n, l, f
  <2>2. n \in 0 .. f => (c - n) + l - 1 \in Nat
    BY <2>1
  <2>3. QED
    BY <2>1, <2>2 DEF c, n, l
<1>2. Creation(0) + Creation(build.shell_pages) + 2 \in Nat /\ Creation(image) + Later \in Nat
  BY BootFacts
<1>3. QED
  BY <1>1, <1>2 DEF BootWork

\* Steps that stay with the process being created.
LEMMA SameProcess ==
  ASSUME Layout, Layout', UNCHANGED <<build, procs, image>>,
         kpc \in {"create", "high", "low", "user_pages"},
         \/ kpc' = "panic"
         \/ /\ kpc' \in {"high", "low", "user_pages"}
            /\ kpc = "create" \/ Len(space'.map) > Len(space.map)
  PROVE  BootWork' < BootWork
<1> DEFINE c == Creation(image)
           f == Finished(image)
           l == Later
           n == Len(space.map)
           n2 == Len(space'.map)
<1>1. /\ c \in Nat /\ l \in Nat /\ l >= 1 /\ f \in Nat /\ c = f + 2
      /\ kpc # "create" => n \in 0 .. f
  BY BootFacts, BaseFacts
<1>2. kpc' # "panic" => n2 \in 0 .. f
  <2>1. kpc' # "panic" => n2 = 0 \/ n2 = 1 \/ n2 \in 2 .. f
    BY DEF Layout, Construction
  <2>2. f >= 6
    BY BaseFacts DEF Finished
  <2> HIDE DEF n2, f
  <2>3. QED
    BY <1>1, <2>1, <2>2
<1>3. BootWork = IF kpc = "create" THEN c + l ELSE (c - n) + l - 1
  BY DEF BootWork
<1>4. BootWork' = IF kpc' = "panic" THEN 0 ELSE (c - n2) + l - 1
  BY DEF BootWork, Later
<1> HIDE DEF c, f, l
<1>5. kpc' # "panic" /\ kpc # "create" => n2 > n
  OBVIOUS
<1> HIDE DEF n, n2
<1>6. CASE kpc' = "panic"
  <2>1. BootWork' = 0
    BY <1>4, <1>6
  <2>2. BootWork > 0
    BY <1>1, <1>3
  <2>3. QED
    BY <2>1, <2>2
<1>7. CASE kpc' # "panic" /\ kpc = "create"
  <2>1. BootWork' = (c - n2) + l - 1 /\ BootWork = c + l
    BY <1>3, <1>4, <1>7
  <2>2. (c - n2) + l - 1 < c + l
    BY <1>1, <1>2, <1>7
  <2>3. QED
    BY <2>1, <2>2
<1>8. CASE kpc' # "panic" /\ kpc # "create"
  <2>1. BootWork' = (c - n2) + l - 1 /\ BootWork = (c - n) + l - 1
    BY <1>3, <1>4, <1>8
  <2>2. (c - n2) + l - 1 < (c - n) + l - 1
    BY <1>1, <1>2, <1>5, <1>8
  <2>3. QED
    BY <2>1, <2>2
<1>9. QED
  BY <1>6, <1>7, <1>8

LEMMA BootStep ==
  ASSUME Layout, [Next]_vars
  PROVE  UNCHANGED kernelVars \/ BootWork' < BootWork
<1>0. Layout'
  BY LayoutStep
<1>1. CASE BootKernel
  <2>1. kpc = "boot" /\ kpc' = "create" /\ image' = 0 /\ build' = build
    BY <1>1 DEF BootKernel
  <2>2. /\ BootWork = Creation(0) + Creation(build.shell_pages) + 2
        /\ BootWork' = Creation(0) + (Creation(build.shell_pages) + 1)
    BY <2>1 DEF BootWork, Later
  <2>3. Creation(0) + (Creation(build.shell_pages) + 1) < Creation(0) + Creation(build.shell_pages) + 2
    BY BootFacts
  <2>4. QED
    BY <2>2, <2>3
<1>2. CASE create_process
  <2>1. kpc = "create" /\ kpc' \in {"panic", "high"} /\ UNCHANGED <<build, procs, image>>
    BY <1>2 DEF create_process, Build
  <2>2. QED
    BY <1>0, <2>1, SameProcess
<1>3. CASE MapKernel
  <2>1. kpc = "high" /\ kpc' \in {"panic", "low"} /\ UNCHANGED <<build, procs, image>>
    BY <1>3 DEF MapKernel, Build
  <2>2. Len(space.map) = 0 /\ (kpc' = "low" => Len(space'.map) = 1)
    BY <1>0, <2>1 DEF Layout, Construction
  <2>3. kpc' = "low" => Len(space'.map) > Len(space.map)
    BY <2>2
  <2>4. QED
    BY <1>0, <2>1, <2>3, SameProcess
<1>4. CASE MapIdentity
  <2>1. kpc = "low" /\ kpc' \in {"panic", "user_pages"} /\ UNCHANGED <<build, procs, image>>
    BY <1>4 DEF MapIdentity, Build
  <2>2. Len(space.map) = 1 /\ (kpc' = "user_pages" => Len(space'.map) \in 2 .. Finished(image))
    BY <1>0, <2>1 DEF Layout, Construction
  <2>3. kpc' = "user_pages" => Len(space'.map) > Len(space.map)
    BY <2>2, BaseFacts
  <2>4. QED
    BY <1>0, <2>1, <2>3, SameProcess
<1>5. CASE MapUser
  <2>1. kpc = "user_pages" /\ kpc' \in {"panic", "user_pages"} /\ UNCHANGED <<build, procs, image>>
    BY <1>5 DEF MapUser, Build
  <2>2. Len(space.map) \in 2 .. Finished(image)
    BY <2>1 DEF Layout, Construction
  <2>3. kpc' = "user_pages" => Len(space'.map) = Len(space.map) + 1
    BY <1>5, UserStep
  <2>4. kpc' = "user_pages" => Len(space'.map) > Len(space.map)
    BY <2>2, <2>3, BaseFacts
  <2>5. QED
    BY <1>0, <2>1, <2>4, SameProcess
<1>6. CASE TakeSlot
  <2> DEFINE n == Len(space.map)
             l == Later
             c == Creation(image)
  <2>1. /\ kpc = "user_pages" /\ build' = build
        /\ \/ image = 0 /\ image' = build.shell_pages /\ kpc' = "create"
           \/ image # 0 /\ kpc' = "enter" /\ image' = image
    BY <1>6 DEF TakeSlot
  <2>2. BootWork = (c - n) + l - 1
    BY <2>1 DEF BootWork
  <2>3. BootWork' <= l
    <3>1. CASE kpc' = "create"
      <4>1. image = 0 /\ image' = build.shell_pages /\ build.shell_pages # 0
        BY <2>1, <3>1, BaseFacts
      <4>2. BootWork' = Creation(build.shell_pages) + 1
        BY <2>1, <3>1, <4>1 DEF BootWork, Later
      <4>3. l = Creation(build.shell_pages) + 1
        BY <4>1 DEF Later
      <4>4. Creation(build.shell_pages) + 1 <= Creation(build.shell_pages) + 1
        BY BootFacts
      <4>5. QED
        BY <4>2, <4>3, <4>4
    <3>2. CASE kpc' = "enter"
      <4>1. BootWork' = 1
        BY <3>2 DEF BootWork
      <4>2. 1 <= l
        BY BootFacts
      <4>3. QED
        BY <4>1, <4>2
    <3>3. QED
      BY <2>1, <3>1, <3>2
  <2>4. c - n >= 2 /\ l \in Nat /\ c - n \in Int
    <3> DEFINE f == Finished(image)
    <3>1. l \in Nat /\ f \in Nat /\ c = f + 2 /\ n \in 0 .. f
      BY <2>1, BootFacts, BaseFacts
    <3> HIDE DEF c, n, l, f
    <3>2. QED
      BY <3>1
  <2>5. BootWork' \in Nat
    <3>1. (Layout => BootWork \in Nat)'
      BY BootWorkNat, PTL
    <3>2. QED
      BY <1>0, <3>1
  <2> HIDE DEF c, n, l
  <2>6. \A w \in Nat : w <= l => w < (c - n) + l - 1
    BY <2>4
  <2>7. QED
    BY <2>2, <2>3, <2>5, <2>6, Zenon
<1>7. CASE EnterShell
  <2>1. BootWork = 1 /\ BootWork' = 0
    BY <1>7 DEF EnterShell, BootWork
  <2>2. QED
    BY <2>1
<1>8. CASE StartShell \/ Stopped \/ UNCHANGED vars
  BY <1>8 DEF StartShell, Stopped, vars, kernelVars
<1>9. QED
  BY <1>1, <1>2, <1>3, <1>4, <1>5, <1>6, <1>7, <1>8 DEF Next, KernelNext

(* kernel_main ends, for a shell of any size: every step of it leaves less *)
(* to do, and nothing the shell does later adds to it.  The loop over user *)
(* pages stops at the end of the stack also for an empty image.            *)
THEOREM KernelComesUp ==
  Spec => [](BootWork \in Nat) /\ [][UNCHANGED kernelVars \/ BootWork' < BootWork]_vars
<1>1. Layout /\ [Next]_vars => [UNCHANGED kernelVars \/ BootWork' < BootWork]_vars
  BY BootStep
<1>2. QED
  BY <1>1, BootWorkNat, LayoutInvariant, PTL DEF Spec

-----------------------------------------------------------------------------
(* What readline keeps: the positions that are left, in order.             *)

Above(K, k) == Cardinality({x \in K : x > k})

\* Every place up to the number of positions is taken.
Ranked(K) == \A n \in 1 .. Cardinality(K) : \E k \in K : Rank(K, k) = n

LEMMA RankFacts ==
  ASSUME NEW K, IsFiniteSet(K), K \subseteq Nat
  PROVE  /\ Cardinality(K) \in Nat
         /\ \A k \in Nat : Rank(K, k) \in Nat /\ Above(K, k) \in Nat
         /\ \A k, l \in K : k < l => Rank(K, k) < Rank(K, l)
<1>1. ASSUME NEW k \in Nat
      PROVE  /\ IsFiniteSet({x \in K : x <= k}) /\ IsFiniteSet({x \in K : x > k})
             /\ Rank(K, k) \in Nat /\ Above(K, k) \in Nat
  <2>1. {x \in K : x <= k} \in SUBSET K /\ {x \in K : x > k} \in SUBSET K
    OBVIOUS
  <2>2. IsFiniteSet({x \in K : x <= k}) /\ IsFiniteSet({x \in K : x > k})
    BY <2>1, FS_Subset
  <2>3. QED
    BY <2>2, FS_CardinalityType DEF Rank, Above
<1>2. ASSUME NEW k \in K, NEW l \in K, k < l PROVE Rank(K, k) < Rank(K, l)
  <2> DEFINE S == {x \in K : x <= k}
             T == {x \in K : x <= l}
  <2>0. k \in Nat /\ l \in Nat /\ \A x \in K : x \in Nat
    OBVIOUS
  <2>1. S \in SUBSET T /\ l \in T /\ ~(l \in S)
    <3>1. \A x \in K : x <= k => x <= l
      BY <1>2, <2>0
    <3>2. l <= l /\ ~(l <= k)
      BY <1>2, <2>0
    <3>3. QED
      BY <3>1, <3>2
  <2>2. IsFiniteSet(T)
    BY <1>1
  <2>3. Cardinality(S) <= Cardinality(T) /\ (Cardinality(T) = Cardinality(S) => T = S)
    <3> HIDE DEF S, T
    <3>1. QED
      BY <2>1, <2>2, FS_Subset
  <2>4. Cardinality(S) = Rank(K, k) /\ Cardinality(T) = Rank(K, l)
    BY DEF Rank
  <2>5. Rank(K, k) \in Nat /\ Rank(K, l) \in Nat /\ S # T
    BY <1>1, <2>1
  <2>6. QED
    BY <2>3, <2>4, <2>5
<1>3. Cardinality(K) \in Nat
  BY FS_CardinalityType
<1>4. QED
  BY <1>1, <1>2, <1>3

LEMMA NthIs ==
  ASSUME NEW K, IsFiniteSet(K), K \subseteq Nat, NEW k \in K
  PROVE  Nth(K, Rank(K, k)) = k
<1> DEFINE y == Nth(K, Rank(K, k))
<1>1. y \in K /\ Rank(K, y) = Rank(K, k)
  BY DEF Nth
<1> HIDE DEF y
<1>2. y \in Nat /\ k \in Nat /\ ~(y < k) /\ ~(k < y)
  <2>1. /\ y < k => Rank(K, y) < Rank(K, k)
        /\ k < y => Rank(K, k) < Rank(K, y)
        /\ Rank(K, k) \in Nat /\ Rank(K, y) \in Nat
    BY <1>1, RankFacts
  <2>2. QED
    BY <1>1, <2>1
<1>3. y = k
  BY <1>2
<1>4. QED
  BY <1>3 DEF y

(* A position m behind all others of K, added in L.                        *)
TopEffect(K, m, L) ==
  /\ IsFiniteSet(L) /\ Cardinality(L) = Cardinality(K) + 1
  /\ Above(L, m) = 0 /\ \A k \in K : Above(L, k) = Above(K, k) + 1
  /\ (Ranked(K) => Ranked(L)) /\ (Ranked(L) => Ranked(K))
  /\ Nth(L, Cardinality(K) + 1) = m
  /\ Ranked(K) => \A n \in 1 .. Cardinality(K) : Nth(K, n) \in K /\ Nth(L, n) = Nth(K, n)

LEMMA TopAdded ==
  ASSUME NEW K, IsFiniteSet(K), K \subseteq Nat, NEW m \in Nat, \A k \in K : k < m,
         NEW L, L = K \cup {m}
  PROVE  TopEffect(K, m, L)
<1>0. ~(m \in K) /\ L \subseteq Nat /\ Cardinality(K) \in Nat
  <2>1. ~(m < m)
    OBVIOUS
  <2>2. ~(m \in K) /\ L \subseteq Nat
    BY <2>1, Zenon
  <2>3. QED
    BY <2>2, RankFacts
<1>a. \A x \in L : x <= m /\ ~(x > m)
  <2> SUFFICES ASSUME NEW x \in L PROVE x <= m /\ ~(x > m)
    OBVIOUS
  <2>1. x \in Nat /\ (x = m \/ x < m)
    BY <1>0
  <2>2. QED
    BY <2>1
<1>1. IsFiniteSet(L) /\ Cardinality(L) = Cardinality(K) + 1
  BY <1>0, FS_AddElement
<1>2. Rank(L, m) = Cardinality(K) + 1
  <2>1. {x \in L : x <= m} = L
    BY <1>a, Zenon
  <2>2. QED
    BY <1>1, <2>1 DEF Rank
<1>3. Above(L, m) = 0
  <2>1. {x \in L : x > m} = {}
    BY <1>a, Zenon
  <2>2. QED
    BY <2>1, FS_EmptySet DEF Above
<1>4. ASSUME NEW k \in K PROVE Rank(L, k) = Rank(K, k) /\ Above(L, k) = Above(K, k) + 1
  <2>1. {x \in L : x <= k} = {x \in K : x <= k}
    BY <1>0
  <2> DEFINE U == {x \in K : x > k}
  <2>2. {x \in L : x > k} = U \cup {m} /\ ~(m \in U) /\ U \in SUBSET K
    BY <1>0
  <2>3. Above(L, k) = Cardinality(U \cup {m}) /\ Above(K, k) = Cardinality(U)
    BY <2>2 DEF Above
  <2> HIDE DEF U
  <2>4. IsFiniteSet(U)
    BY <2>2, FS_Subset
  <2>5. Cardinality(U \cup {m}) = Cardinality(U) + 1
    BY <2>2, <2>4, FS_AddElement
  <2>6. QED
    BY <2>1, <2>3, <2>5 DEF Rank
<1>5. ASSUME Ranked(K) PROVE Ranked(L)
  <2> SUFFICES ASSUME NEW n \in 1 .. Cardinality(L) PROVE \E k \in L : Rank(L, k) = n
    BY DEF Ranked
  <2>1. CASE n = Cardinality(K) + 1
    BY <1>2, <2>1
  <2>2. CASE n \in 1 .. Cardinality(K)
    <3>1. PICK k \in K : Rank(K, k) = n
      BY <1>5, <2>2 DEF Ranked
    <3>2. QED
      BY <1>4, <3>1
  <2>3. n = Cardinality(K) + 1 \/ n \in 1 .. Cardinality(K)
    BY <1>0, <1>1
  <2>4. QED
    BY <2>1, <2>2, <2>3
<1>6. ASSUME Ranked(L) PROVE Ranked(K)
  <2> SUFFICES ASSUME NEW n \in 1 .. Cardinality(K) PROVE \E k \in K : Rank(K, k) = n
    BY DEF Ranked
  <2>1. n \in 1 .. Cardinality(L)
    BY <1>0, <1>1
  <2>2. PICK k \in L : Rank(L, k) = n
    BY <1>6, <2>1 DEF Ranked
  <2>3. k # m
    BY <1>0, <1>2, <2>2
  <2>4. QED
    BY <1>4, <2>2, <2>3
<1>7. Nth(L, Cardinality(K) + 1) = m
  BY <1>0, <1>1, <1>2, NthIs, ZenonT(60)
<1>8. ASSUME Ranked(K), NEW n \in 1 .. Cardinality(K)
      PROVE  Nth(K, n) \in K /\ Nth(L, n) = Nth(K, n)
  <2>1. PICK k \in K : Rank(K, k) = n
    BY <1>8 DEF Ranked
  <2>2. Nth(K, n) = k
    BY <2>1, NthIs
  <2>3. Nth(L, n) = k
    <3>1. k \in L /\ Rank(L, k) = n
      BY <1>4, <2>1
    <3>2. QED
      BY <1>0, <1>1, <3>1, NthIs
  <2>4. QED
    BY <2>1, <2>2, <2>3
<1>9. QED
  BY <1>1, <1>3, <1>4, <1>5, <1>6, <1>7, <1>8 DEF TopEffect

(* How a keystroke counts.                                                 *)
LEMMA StrokesNone ==
  ASSUME NEW t, NEW k \in Nat, NEW S
  PROVE  Strokes(t, k, k, S) = 0
<1>1. {x \in k + 1 .. k : t[x] \in S} = {}
  OBVIOUS
<1>2. QED
  BY <1>1, FS_EmptySet DEF Strokes

LEMMA StrokesFinite ==
  ASSUME NEW t, NEW k \in Nat, NEW j \in Nat, NEW S
  PROVE  IsFiniteSet({x \in k + 1 .. j : t[x] \in S}) /\ Strokes(t, k, j, S) \in Nat
<1>1. IsFiniteSet(k + 1 .. j) /\ {x \in k + 1 .. j : t[x] \in S} \in SUBSET (k + 1 .. j)
  BY FS_Interval
<1>2. IsFiniteSet({x \in k + 1 .. j : t[x] \in S})
  BY <1>1, FS_Subset
<1>3. QED
  BY <1>2, FS_CardinalityType DEF Strokes

LEMMA StrokesSame ==
  ASSUME NEW t \in Seq(Int), NEW c \in Int, NEW k \in Nat, NEW j \in Nat, j <= Len(t), NEW S
  PROVE  Strokes(Append(t, c), k, j, S) = Strokes(t, k, j, S)
<1>0. Len(t) \in Nat /\ \A x \in 1 .. Len(t) : Append(t, c)[x] = t[x]
  BY AppendProperties, LenProperties
<1>1. {x \in k + 1 .. j : Append(t, c)[x] \in S} = {x \in k + 1 .. j : t[x] \in S}
  BY <1>0
<1>2. QED
  BY <1>1 DEF Strokes

LEMMA StrokesMore ==
  ASSUME NEW t \in Seq(Int), NEW c \in Int, NEW k \in Nat, k <= Len(t), NEW S
  PROVE  /\ c \in S => Strokes(Append(t, c), k, Len(t) + 1, S) = Strokes(t, k, Len(t), S) + 1
         /\ ~(c \in S) => Strokes(Append(t, c), k, Len(t) + 1, S) = Strokes(t, k, Len(t), S)
<1> DEFINE n == Len(t)
           U == {x \in k + 1 .. n : t[x] \in S}
           V == {x \in k + 1 .. n + 1 : Append(t, c)[x] \in S}
<1>0. /\ n \in Nat /\ Append(t, c)[n + 1] = c
      /\ \A x \in 1 .. n : Append(t, c)[x] = t[x]
  BY AppendProperties, LenProperties
<1>1. /\ IsFiniteSet(U) /\ ~(n + 1 \in U)
      /\ Strokes(t, k, n, S) = Cardinality(U) /\ Strokes(Append(t, c), k, n + 1, S) = Cardinality(V)
  <2>1. IsFiniteSet(U)
    <3>1. n \in Nat
      BY <1>0
    <3> HIDE DEF n
    <3>2. QED
      BY <3>1, StrokesFinite
  <2>2. ~(n + 1 \in U)
    BY <1>0
  <2>3. QED
    BY <2>1, <2>2 DEF Strokes
<1>2. CASE c \in S
  <2>1. V = U \cup {n + 1}
    BY <1>0, <1>2
  <2>2. Cardinality(U \cup {n + 1}) = Cardinality(U) + 1
    <3> HIDE DEF U, n
    <3>1. QED
      BY <1>1, FS_AddElement
  <2>3. QED
    BY <1>1, <1>2, <2>1, <2>2
<1>3. CASE ~(c \in S)
  <2>1. V = U
    BY <1>0, <1>3
  <2>2. QED
    BY <1>1, <1>3, <2>1
<1>4. QED
  BY <1>2, <1>3

(* One more keystroke: a character is kept, a backspace takes back those   *)
(* behind which nothing is left.                                           *)
LEMMA KeptAppend ==
  ASSUME NEW t \in Seq(Int), NEW c \in Int
  PROVE  /\ c \in Printable => Kept(Append(t, c)) = Kept(t) \cup {Len(t) + 1}
         /\ c \in Backspaces =>
              Kept(Append(t, c)) = {k \in Kept(t) : Strokes(t, k, Len(t), Backspaces)
                                                      < Strokes(t, k, Len(t), Printable)}
         /\ ~(c \in Printable \cup Backspaces) => Kept(Append(t, c)) = Kept(t)
<1> DEFINE n == Len(t)
           u == Append(t, c)
           B(s, k, j) == Strokes(s, k, j, Backspaces)
           P(s, k, j) == Strokes(s, k, j, Printable)
<1>0. /\ n \in Nat /\ Len(u) = n + 1 /\ u[n + 1] = c /\ \A x \in 1 .. n : u[x] = t[x]
      /\ ~(c \in Printable /\ c \in Backspaces)
  BY AppendProperties, LenProperties DEF Printable, Backspaces
<1>1. ASSUME NEW k \in 1 .. n
      PROVE  /\ \A j \in k .. n : B(u, k, j) = B(t, k, j) /\ P(u, k, j) = P(t, k, j)
             /\ B(u, k, n + 1) = IF c \in Backspaces THEN B(t, k, n) + 1 ELSE B(t, k, n)
             /\ P(u, k, n + 1) = IF c \in Printable THEN P(t, k, n) + 1 ELSE P(t, k, n)
             /\ B(t, k, n) \in Nat /\ P(t, k, n) \in Nat
  <2>1. k \in Nat /\ k <= n /\ \A j \in k .. n : j \in Nat /\ j <= n
    BY <1>0
  <2>2. \A j \in k .. n : B(u, k, j) = B(t, k, j) /\ P(u, k, j) = P(t, k, j)
    BY <2>1, StrokesSame
  <2>3. B(u, k, n + 1) = IF c \in Backspaces THEN B(t, k, n) + 1 ELSE B(t, k, n)
    BY <2>1, StrokesMore
  <2>4. P(u, k, n + 1) = IF c \in Printable THEN P(t, k, n) + 1 ELSE P(t, k, n)
    BY <2>1, StrokesMore
  <2>5. B(t, k, n) \in Nat /\ P(t, k, n) \in Nat
    BY <1>0, <2>1, StrokesFinite
  <2>6. QED
    BY <2>2, <2>3, <2>4, <2>5
<1>2. B(u, n + 1, n + 1) = 0 /\ P(u, n + 1, n + 1) = 0
  <2>1. n + 1 \in Nat
    BY <1>0
  <2>2. QED
    BY <2>1, StrokesNone
<1>3. ASSUME NEW k \in 1 .. n
      PROVE  k \in Kept(u) <=> k \in Kept(t) /\ B(u, k, n + 1) <= P(u, k, n + 1)
  <2>1. k \in 1 .. Len(u) /\ u[k] = t[k] /\ k .. Len(u) = (k .. n) \cup {n + 1}
    BY <1>0
  <2>2. k \in Kept(u) <=> u[k] \in Printable /\ \A j \in k .. Len(u) : B(u, k, j) <= P(u, k, j)
    BY <2>1 DEF Kept
  <2>3. k \in Kept(t) <=> t[k] \in Printable /\ \A j \in k .. n : B(t, k, j) <= P(t, k, j)
    BY DEF Kept
  <2> HIDE DEF B, P, n, u
  <2>4. (\A j \in k .. Len(u) : B(u, k, j) <= P(u, k, j))
          <=> (\A j \in k .. n : B(t, k, j) <= P(t, k, j)) /\ B(u, k, n + 1) <= P(u, k, n + 1)
    BY <1>1, <2>1
  <2>5. QED
    BY <2>1, <2>2, <2>3, <2>4, Zenon
<1>4. n + 1 \in Kept(u) <=> c \in Printable
  <2>1. /\ n + 1 \in 1 .. Len(u) /\ (n + 1) .. Len(u) = {n + 1}
    BY <1>0
  <2>2. n + 1 \in Kept(u) <=> u[n + 1] \in Printable /\ \A j \in (n + 1) .. Len(u) : B(u, n + 1, j) <= P(u, n + 1, j)
    BY <2>1 DEF Kept
  <2> HIDE DEF B, P, n, u
  <2>3. \A j \in (n + 1) .. Len(u) : B(u, n + 1, j) <= P(u, n + 1, j)
    BY <1>2, <2>1
  <2>4. QED
    BY <1>0, <2>2, <2>3
<1>5. /\ Kept(t) \subseteq 1 .. n /\ Kept(u) \subseteq 1 .. n + 1
      /\ \A k \in Kept(t) : B(t, k, n) <= P(t, k, n)
  <2>1. Kept(t) \subseteq 1 .. n
    BY DEF Kept
  <2>2. Kept(u) \subseteq 1 .. n + 1
    BY <1>0 DEF Kept
  <2>3. ASSUME NEW k \in Kept(t) PROVE B(t, k, n) <= P(t, k, n)
    <3>1. n \in k .. n
      BY <1>0, <2>1
    <3>2. QED
      BY <3>1 DEF Kept
  <2>4. QED
    BY <2>1, <2>2, <2>3
<1> HIDE DEF B, P, n, u
<1>6. CASE c \in Printable
  <2>1. \A k \in 1 .. n : k \in Kept(u) <=> k \in Kept(t)
    <3> SUFFICES ASSUME NEW k \in 1 .. n PROVE k \in Kept(t) => B(u, k, n + 1) <= P(u, k, n + 1)
      BY <1>3
    <3>1. QED
      BY <1>0, <1>1, <1>5, <1>6
  <2>2. \A k : k \in 1 .. n + 1 <=> k \in 1 .. n \/ k = n + 1
    BY <1>0
  <2>3. Kept(u) = Kept(t) \cup {n + 1}
    BY <1>4, <1>5, <1>6, <2>1, <2>2, Zenon
  <2>4. QED
    BY <1>0, <1>6, <2>3 DEF n, u
<1>7. CASE c \in Backspaces
  <2>1. \A k \in 1 .. n : k \in Kept(u) <=> k \in Kept(t) /\ B(t, k, n) < P(t, k, n)
    <3> SUFFICES ASSUME NEW k \in 1 .. n
        PROVE  B(u, k, n + 1) <= P(u, k, n + 1) <=> B(t, k, n) < P(t, k, n)
      BY <1>3
    <3>1. QED
      BY <1>0, <1>1, <1>7
  <2>2. \A k : k \in 1 .. n + 1 <=> k \in 1 .. n \/ k = n + 1
    BY <1>0
  <2>3. Kept(u) = {k \in Kept(t) : B(t, k, n) < P(t, k, n)}
    BY <1>0, <1>4, <1>5, <1>7, <2>1, <2>2, Zenon
  <2>4. QED
    BY <1>0, <1>7, <2>3 DEF n, u, B, P
<1>8. CASE ~(c \in Printable \cup Backspaces)
  <2>1. \A k \in 1 .. n : k \in Kept(u) <=> k \in Kept(t)
    <3> SUFFICES ASSUME NEW k \in 1 .. n PROVE k \in Kept(t) => B(u, k, n + 1) <= P(u, k, n + 1)
      BY <1>3
    <3>1. QED
      BY <1>0, <1>1, <1>5, <1>8
  <2>2. \A k : k \in 1 .. n + 1 <=> k \in 1 .. n \/ k = n + 1
    BY <1>0
  <2>3. Kept(u) = Kept(t)
    BY <1>4, <1>5, <1>8, <2>1, <2>2, Zenon
  <2>4. QED
    BY <1>8, <2>3 DEF u
<1>9. QED
  BY <1>6, <1>7, <1>8

-----------------------------------------------------------------------------
(* What is known of every list of keystrokes: of those after a kept        *)
(* character, as many are left as there are more characters than           *)
(* backspaces.                                                             *)
Balanced(t) ==
  \A k \in Kept(t) :
    Strokes(t, k, Len(t), Printable) = Strokes(t, k, Len(t), Backspaces) + Above(Kept(t), k)

EditOK(t) == Balanced(t) /\ Ranked(Kept(t))

LEMMA KeptFinite ==
  ASSUME NEW t \in Seq(Int)
  PROVE  /\ Len(t) \in Nat /\ Kept(t) \subseteq Nat /\ IsFiniteSet(Kept(t))
         /\ \A k \in Kept(t) : k \in 1 .. Len(t) /\ k < Len(t) + 1
         /\ Cardinality(Kept(t)) \in Nat
<1>1. Len(t) \in Nat /\ Kept(t) \in SUBSET (1 .. Len(t))
  BY LenProperties DEF Kept
<1>2. IsFiniteSet(1 .. Len(t))
  BY <1>1, FS_Interval
<1>3. IsFiniteSet(Kept(t))
  BY <1>1, <1>2, FS_Subset
<1>4. \A k \in 1 .. Len(t) : k \in Nat /\ k < Len(t) + 1
  BY <1>1
<1>5. QED
  BY <1>1, <1>3, <1>4, FS_CardinalityType
\* A line is a sequence of as many characters as positions are left.
LEMMA EditedSeq ==
  ASSUME NEW t \in Seq(Int), EditOK(t)
  PROVE  /\ Edited(t) \in Seq(Int) /\ Len(Edited(t)) = Cardinality(Kept(t))
         /\ \A n \in 1 .. Cardinality(Kept(t)) : Nth(Kept(t), n) \in Kept(t)
<1> DEFINE K == Kept(t)
<1>1. /\ K \subseteq Nat /\ IsFiniteSet(K) /\ Cardinality(K) \in Nat
      /\ \A k \in K : k \in 1 .. Len(t)
  BY KeptFinite
<1>2. ASSUME NEW n \in 1 .. Cardinality(K) PROVE Nth(K, n) \in K /\ t[Nth(K, n)] \in Int
  <2>1. PICK k \in K : Rank(K, k) = n
    BY DEF EditOK, Ranked
  <2>2. Nth(K, n) = k
    BY <1>1, <2>1, NthIs
  <2>3. t[k] \in Int
    BY <1>1, ElementOfSeq
  <2>4. QED
    BY <2>1, <2>2, <2>3
<1>3. Edited(t) = [n \in 1 .. Cardinality(K) |-> t[Nth(K, n)]]
  BY DEF Edited
<1> HIDE DEF K
<1>4. Edited(t) \in Seq(Int) /\ Len(Edited(t)) = Cardinality(K)
  BY <1>1, <1>2, <1>3
<1>5. QED
  BY <1>2, <1>4 DEF K

(* readline appends a character.                                           *)
LEMMA EditPrintable ==
  ASSUME NEW t \in Seq(Int), NEW c \in Printable, EditOK(t)
  PROVE  EditOK(Append(t, c)) /\ Edited(Append(t, c)) = Append(Edited(t), c)
<1> DEFINE n == Len(t)
           u == Append(t, c)
           K == Kept(t)
           L == Kept(u)
<1>0. /\ c \in Int /\ n \in Nat /\ n + 1 \in Nat /\ u \in Seq(Int) /\ Len(u) = n + 1 /\ u[n + 1] = c
      /\ \A x \in 1 .. n : u[x] = t[x]
      /\ ~(c \in Backspaces)
  <2>1. c \in Int /\ ~(c \in Backspaces)
    BY DEF Printable, Backspaces
  <2>2. QED
    BY <2>1, AppendProperties, LenProperties
<1>1. /\ K \subseteq Nat /\ IsFiniteSet(K) /\ Cardinality(K) \in Nat
      /\ \A k \in K : k \in 1 .. n /\ k < n + 1 /\ k \in Nat /\ k <= n
  BY KeptFinite
<1>2. L = K \cup {n + 1}
  BY <1>0, KeptAppend
<1>3. TopEffect(K, n + 1, L)
  <2> HIDE DEF n, u, K, L
  <2> DEFINE top == n + 1
  <2>1. \A k \in K : k < top
    BY <1>1
  <2>2. top \in Nat /\ L = K \cup {top}
    BY <1>0, <1>2
  <2> HIDE DEF top
  <2>3. TopEffect(K, top, L)
    BY <1>1, <2>1, <2>2, TopAdded
  <2>4. QED
    BY <2>3 DEF top
<1> USE DEF TopEffect
<1>4. Ranked(K)
  BY DEF EditOK
<1>5. Balanced(u)
  <2> SUFFICES ASSUME NEW k \in L
      PROVE  Strokes(u, k, n + 1, Printable) = Strokes(u, k, n + 1, Backspaces) + Above(L, k)
    BY <1>0 DEF Balanced
  <2>1. CASE k = n + 1
    <3>1. Strokes(u, k, n + 1, Printable) = 0 /\ Strokes(u, k, n + 1, Backspaces) = 0
      BY <1>0, <2>1, StrokesNone
    <3>2. QED
      BY <1>3, <2>1, <3>1
  <2>2. CASE k \in K
    <3>1. Strokes(u, k, n + 1, Printable) = Strokes(t, k, n, Printable) + 1
      BY <1>0, <1>1, <2>2, StrokesMore
    <3>2. Strokes(u, k, n + 1, Backspaces) = Strokes(t, k, n, Backspaces)
      BY <1>0, <1>1, <2>2, StrokesMore
    <3>3. Strokes(t, k, n, Printable) = Strokes(t, k, n, Backspaces) + Above(K, k)
      BY <2>2 DEF EditOK, Balanced
    <3>4. Strokes(t, k, n, Backspaces) \in Nat /\ Above(K, k) \in Nat
      BY <1>0, <1>1, <2>2, StrokesFinite, RankFacts
    <3>5. Above(L, k) = Above(K, k) + 1
      BY <1>3, <2>2
    <3> HIDE DEF n, u, K, L
    <3>6. QED
      BY <3>1, <3>2, <3>3, <3>4, <3>5
  <2>3. QED
    BY <1>2, <2>1, <2>2
<1>6. EditOK(u)
  BY <1>3, <1>4, <1>5 DEF EditOK
<1>7. Edited(u) = Append(Edited(t), c)
  <2> DEFINE q == Cardinality(K)
  <2>1. Edited(t) \in Seq(Int) /\ Len(Edited(t)) = q /\ Edited(u) \in Seq(Int) /\ Len(Edited(u)) = q + 1
    BY <1>0, <1>3, <1>6, EditedSeq
  <2>2. ASSUME NEW m \in 1 .. q PROVE Edited(u)[m] = Edited(t)[m]
    <3>1. m \in 1 .. q + 1
      BY <1>1
    <3>2. Edited(u)[m] = u[Nth(L, m)] /\ Edited(t)[m] = t[Nth(K, m)]
      BY <1>3, <3>1 DEF Edited
    <3>3. Nth(L, m) = Nth(K, m) /\ Nth(K, m) \in K
      BY <1>3, <1>4
    <3>4. QED
      BY <1>0, <1>1, <3>2, <3>3
  <2>3. Edited(u)[q + 1] = c
    <3>1. q + 1 \in 1 .. q + 1
      BY <1>1
    <3>2. Edited(u)[q + 1] = u[Nth(L, q + 1)]
      BY <1>3, <3>1 DEF Edited
    <3>3. QED
      BY <1>0, <1>3, <3>2
  <2> DEFINE v == Append(Edited(t), c)
  <2>4. /\ v \in Seq(Int) /\ Len(v) = q + 1 /\ v[q + 1] = c
        /\ \A m \in 1 .. q : v[m] = Edited(t)[m]
    BY <1>0, <2>1, AppendProperties
  <2>5. \A m \in 1 .. q + 1 : m \in 1 .. q \/ m = q + 1
    BY <1>1
  <2> HIDE DEF q, v, u
  <2>6. QED
    <3>1. \A m \in 1 .. q + 1 : Edited(u)[m] = v[m]
      BY <2>2, <2>3, <2>4, <2>5
    <3>2. Edited(u) = v
      BY <2>1, <2>4, <3>1, SeqEqual
    <3>3. QED
      BY <3>2 DEF v, u
<1>8. QED
  BY <1>6, <1>7
(* It drops the last one, if there is one.                                 *)
LEMMA EditBackspace ==
  ASSUME NEW t \in Seq(Int), NEW c \in Backspaces, EditOK(t)
  PROVE  /\ EditOK(Append(t, c))
         /\ Edited(Append(t, c)) = IF Edited(t) = << >> THEN Edited(t) ELSE Front(Edited(t))
<1> DEFINE n == Len(t)
           u == Append(t, c)
           K == Kept(t)
           L == Kept(u)
<1>0. /\ c \in Int /\ n \in Nat /\ u \in Seq(Int) /\ Len(u) = n + 1
      /\ \A x \in 1 .. n : u[x] = t[x]
      /\ ~(c \in Printable)
  <2>1. c \in Int /\ ~(c \in Printable)
    BY DEF Printable, Backspaces
  <2>2. QED
    BY <2>1, AppendProperties, LenProperties
<1>1. /\ K \subseteq Nat /\ IsFiniteSet(K) /\ Cardinality(K) \in Nat
      /\ \A k \in K : k \in 1 .. n /\ k \in Nat /\ k <= n
  BY KeptFinite
<1>2. L = {k \in K : Strokes(t, k, n, Backspaces) < Strokes(t, k, n, Printable)}
  BY <1>0, KeptAppend
<1>3. ASSUME NEW k \in K
      PROVE  /\ Strokes(t, k, n, Printable) = Strokes(t, k, n, Backspaces) + Above(K, k)
             /\ Strokes(t, k, n, Backspaces) \in Nat /\ Above(K, k) \in Nat
             /\ Strokes(u, k, n + 1, Printable) = Strokes(t, k, n, Printable)
             /\ Strokes(u, k, n + 1, Backspaces) = Strokes(t, k, n, Backspaces) + 1
  <2>1. Strokes(t, k, n, Printable) = Strokes(t, k, n, Backspaces) + Above(K, k)
    BY DEF EditOK, Balanced
  <2>2. Strokes(t, k, n, Backspaces) \in Nat /\ Above(K, k) \in Nat
    BY <1>0, <1>1, StrokesFinite, RankFacts
  <2>3. Strokes(u, k, n + 1, Printable) = Strokes(t, k, n, Printable)
    BY <1>0, <1>1, StrokesMore
  <2>4. Strokes(u, k, n + 1, Backspaces) = Strokes(t, k, n, Backspaces) + 1
    BY <1>0, <1>1, StrokesMore
  <2>5. QED
    BY <2>1, <2>2, <2>3, <2>4
<1>4. Ranked(K)
  BY DEF EditOK
<1>5. Edited(t) \in Seq(Int) /\ Len(Edited(t)) = Cardinality(K)
  BY EditedSeq
<1>6. CASE K = {}
  <2>1. L = {} /\ Cardinality(K) = 0
    BY <1>2, <1>6, FS_EmptySet
  <2>2. Cardinality(L) = 0 /\ 1 .. 0 = {}
    BY <1>6, <2>1
  <2>3. EditOK(u)
    BY <2>1, <2>2 DEF EditOK, Balanced, Ranked
  <2>4. Edited(u) \in Seq(Int) /\ Len(Edited(u)) = 0
    BY <1>0, <2>2, <2>3, EditedSeq
  <2>5. Edited(u) = << >> /\ Edited(t) = << >>
    BY <1>5, <2>1, <2>4, EmptySeq
  <2>6. QED
    BY <2>3, <2>5
<1>7. CASE K # {}
  <2>1. PICK m \in K : \A k \in K : m >= k
    <3>1. K \subseteq 0 .. n
      BY <1>1
    <3> HIDE DEF K
    <3>2. QED
      BY <1>0, <1>7, <3>1, GreatestElement
  <2> DEFINE J == K \ {m}
             q == Cardinality(J)
  <2>2. /\ K = J \cup {m} /\ J \subseteq Nat /\ IsFiniteSet(J) /\ m \in Nat
        /\ \A k \in J : k < m
    <3>1. IsFiniteSet(J)
      BY <1>1, FS_RemoveElement
    <3>2. \A k \in J : k < m
      <4> SUFFICES ASSUME NEW k \in K, k # m PROVE k < m
        OBVIOUS
      <4>1. k \in Nat /\ m \in Nat /\ m >= k
        BY <1>1, <2>1
      <4>2. QED
        BY <4>1
    <3>3. QED
      BY <1>1, <2>1, <3>1, <3>2
  <2>3. TopEffect(J, m, K)
    <3> HIDE DEF J, K
    <3>1. QED
      BY <2>2, TopAdded
  <2>4. L = J
    <3>1. ASSUME NEW k \in K PROVE k \in L <=> Above(K, k) # 0
      <4>1. k \in L <=> Strokes(t, k, n, Backspaces) < Strokes(t, k, n, Printable)
        BY <1>2
      <4>2. QED
        BY <1>3, <4>1
    <3>2. ASSUME NEW k \in J PROVE Above(K, k) # 0
      <4>1. Above(K, k) = Above(J, k) + 1
        BY <2>3 DEF TopEffect
      <4>2. Above(J, k) \in Nat
        BY <2>2, RankFacts
      <4>3. QED
        BY <4>1, <4>2
    <3>3. Above(K, m) = 0
      BY <2>3 DEF TopEffect
    <3>4. L \subseteq K
      BY <1>2
    <3> HIDE DEF L, K
    <3>5. QED
      BY <2>1, <3>1, <3>2, <3>3, <3>4
  <2>5. Balanced(u)
    <3> SUFFICES ASSUME NEW k \in L
        PROVE  Strokes(u, k, n + 1, Printable) = Strokes(u, k, n + 1, Backspaces) + Above(L, k)
      BY <1>0 DEF Balanced
    <3>1. k \in J /\ k \in K /\ Above(K, k) = Above(J, k) + 1
      BY <2>3, <2>4 DEF TopEffect
    <3>2. Above(J, k) \in Nat /\ Above(L, k) = Above(J, k)
      BY <2>2, <2>4, <3>1, RankFacts
    <3> HIDE DEF n, u, K, L, J
    <3>3. QED
      BY <1>3, <3>1, <3>2
  <2>6. Ranked(J)
    BY <1>4, <2>3 DEF TopEffect
  <2>7. EditOK(u)
    BY <2>4, <2>5, <2>6 DEF EditOK
  <2>8. /\ q \in Nat /\ Cardinality(K) = q + 1
        /\ Edited(u) \in Seq(Int) /\ Len(Edited(u)) = q
    BY <1>0, <2>2, <2>3, <2>4, <2>7, EditedSeq, RankFacts DEF TopEffect
  <2>9. ASSUME NEW x \in 1 .. q PROVE Edited(u)[x] = Edited(t)[x]
    <3>1. x \in 1 .. q + 1
      BY <2>8
    <3>2. Edited(u)[x] = u[Nth(J, x)] /\ Edited(t)[x] = t[Nth(K, x)]
      BY <2>4, <2>8, <3>1 DEF Edited
    <3>3. Nth(K, x) = Nth(J, x) /\ Nth(J, x) \in J
      BY <2>3, <2>6 DEF TopEffect
    <3>4. Nth(J, x) \in 1 .. n
      BY <1>1, <3>3
    <3>5. QED
      BY <1>0, <3>2, <3>3, <3>4
  <2> DEFINE v == Front(Edited(t))
  <2>10. /\ Edited(t) # << >> /\ v \in Seq(Int) /\ Len(v) = q
         /\ \A x \in 1 .. q : v[x] = Edited(t)[x]
    <3> HIDE DEF q, K
    <3>1. /\ Len(Edited(t)) = q + 1 /\ v = SubSeq(Edited(t), 1, q)
      BY <1>5, <2>8 DEF Front
    <3>2. Edited(t) # << >>
      BY <2>8, <3>1, EmptySeq
    <3>3. \A x \in 1 .. q : Edited(t)[x] \in Int
      <4> SUFFICES ASSUME NEW x \in 1 .. q PROVE Edited(t)[x] \in Int
        OBVIOUS
      <4>1. x \in 1 .. Len(Edited(t))
        BY <2>8, <3>1
      <4>2. QED
        BY <1>5, <4>1, ElementOfSeq
    <3> HIDE DEF v
    <3>4. v \in Seq(Int) /\ Len(v) = q /\ \A x \in 1 .. q : v[x] = Edited(t)[x]
      BY <2>8, <3>1, <3>3, SubSeqProperties
    <3>5. QED
      BY <3>2, <3>4
  <2> HIDE DEF v, q, u
  <2>11. Edited(u) = v
    BY <2>8, <2>9, <2>10, SeqEqual
  <2>12. QED
    BY <2>7, <2>10, <2>11 DEF v, u
<1>8. QED
  BY <1>6, <1>7

(* It ignores control characters.                                          *)
LEMMA EditOther ==
  ASSUME NEW t \in Seq(Int), NEW c \in Int, ~(c \in Printable \cup Backspaces), EditOK(t)
  PROVE  EditOK(Append(t, c)) /\ Edited(Append(t, c)) = Edited(t)
<1> DEFINE n == Len(t)
           u == Append(t, c)
           K == Kept(t)
<1>0. /\ n \in Nat /\ u \in Seq(Int) /\ Len(u) = n + 1 /\ \A x \in 1 .. n : u[x] = t[x]
  BY AppendProperties, LenProperties
<1>1. /\ Kept(u) = K
      /\ \A k \in K : k \in 1 .. n /\ k \in Nat /\ k <= n
  BY KeptFinite, KeptAppend
<1>2. Balanced(u)
  <2> SUFFICES ASSUME NEW k \in K
      PROVE  Strokes(u, k, n + 1, Printable) = Strokes(u, k, n + 1, Backspaces) + Above(K, k)
    BY <1>0, <1>1 DEF Balanced
  <2>1. Strokes(u, k, n + 1, Printable) = Strokes(t, k, n, Printable)
    BY <1>0, <1>1, StrokesMore
  <2>2. Strokes(u, k, n + 1, Backspaces) = Strokes(t, k, n, Backspaces)
    BY <1>0, <1>1, StrokesMore
  <2>3. QED
    BY <2>1, <2>2 DEF EditOK, Balanced
<1>3. EditOK(u)
  BY <1>1, <1>2 DEF EditOK
<1>4. ASSUME NEW x \in 1 .. Cardinality(K) PROVE u[Nth(K, x)] = t[Nth(K, x)]
  BY <1>0, <1>1, EditedSeq
<1>5. Edited(u) = Edited(t)
  BY <1>1, <1>4 DEF Edited
<1>6. QED
  BY <1>3, <1>5

LEMMA EditEmpty == EditOK(<< >>) /\ Edited(<< >>) = << >>
<1>1. Kept(<< >>) = {} /\ Cardinality({}) = 0 /\ 1 .. 0 = {}
  BY FS_EmptySet DEF Kept
<1>2. EditOK(<< >>)
  BY <1>1 DEF EditOK, Balanced, Ranked
<1>3. Edited(<< >>) \in Seq(Int) /\ Len(Edited(<< >>)) = 0
  BY <1>1, <1>2, EditedSeq, EmptySeq
<1>4. QED
  BY <1>2, <1>3, EmptySeq
-----------------------------------------------------------------------------
(* readline between two keystrokes.                                        *)

Keystroke == (1 .. 127) \ {10, 13}

\* With the first k keystrokes of t the line fills a buffer of that size.
Fills(t, k, size) == Len(Edited(SubSeq(t, 1, k))) = size - 1

\* r keystrokes of t have been read.
Reading(t, r) ==
  /\ \A k \in 0 .. r : EditOK(SubSeq(t, 1, k))
  /\ full => \E f \in 0 .. r : /\ buf = Edited(SubSeq(t, 1, f)) /\ Fills(t, f, bufsz)
                               /\ \A k \in 0 .. f - 1 : ~Fills(t, k, bufsz)
  /\ ~full => /\ buf = Edited(SubSeq(t, 1, r)) /\ Len(buf) < bufsz - 1
              /\ \A k \in 0 .. r : ~Fills(t, k, bufsz)

Waiting(t, r, enter) ==
  /\ smode \in Modes /\ full \in BOOLEAN
  /\ last = [mode |-> smode, typed |-> t, line |-> << >>, answer |-> Nothing]
  /\ keys = Append(SubSeq(t, r + 1, Len(t)), enter)
  /\ Reading(t, r)

ShellInv ==
  /\ keys # << >> => \E t \in Seq(Keystroke), r \in Nat, enter \in {NL, CR} :
                       r <= Len(t) /\ Waiting(t, r, enter)
  /\ keys = << >> => buf = << >> /\ full = FALSE
  /\ LinesAsTyped

LEMMA KeystrokeSeq ==
  ASSUME NEW t \in Seq(Keystroke)
  PROVE  /\ t \in Seq(Int) /\ Len(t) \in Nat
         /\ \A k \in 1 .. Len(t) : t[k] \in Keystroke /\ t[k] \in Int /\ ~(t[k] \in {NL, CR})
<1>1. Keystroke \subseteq Int /\ \A c \in Keystroke : ~(c \in {NL, CR})
  BY DEF Keystroke, NL, CR
<1>2. \A k \in 1 .. Len(t) : t[k] \in Keystroke
  BY ElementOfSeq
<1>3. t \in Seq(Int)
  BY <1>1, SeqMonotonic
<1>4. QED
  BY <1>1, <1>2, <1>3, LenProperties

LEMMA PrefixNext ==
  ASSUME NEW t \in Seq(Keystroke), NEW r \in Nat, r < Len(t)
  PROVE  /\ SubSeq(t, 1, r) \in Seq(Int)
         /\ SubSeq(t, 1, r + 1) = Append(SubSeq(t, 1, r), t[r + 1])
         /\ t[r + 1] \in Int /\ ~(t[r + 1] \in {NL, CR})
<1>1. /\ t \in Seq(Int) /\ Len(t) \in Nat
      /\ \A k \in 1 .. Len(t) : t[k] \in Int /\ ~(t[k] \in {NL, CR})
  BY KeystrokeSeq
<1>2. r + 1 \in 1 .. Len(t) /\ 1 \in 1 .. Len(t) /\ (r + 1) - 1 = r
  BY <1>1
<1>3. \A k \in 1 .. r : t[k] \in Int
  BY <1>1
<1>4. SubSeq(t, 1, r) \in Seq(Int)
  BY <1>3, SubSeqProperties
<1>5. SubSeq(t, 1, r + 1) = SubSeq(t, 1, r) \o << t[r + 1] >>
  BY <1>1, <1>2, SubSeqRecursiveSecond
<1>6. QED
  BY <1>1, <1>2, <1>4, <1>5, AppendIsConcat

LEMMA KeysNext ==
  ASSUME NEW t \in Seq(Keystroke), NEW r \in Nat, r <= Len(t), NEW enter \in {NL, CR}, NEW ks,
         ks = Append(SubSeq(t, r + 1, Len(t)), enter)
  PROVE  /\ ks # << >>
         /\ r < Len(t) => /\ Head(ks) = t[r + 1]
                          /\ Tail(ks) = Append(SubSeq(t, (r + 1) + 1, Len(t)), enter)
         /\ r = Len(t) => Head(ks) = enter /\ Tail(ks) = << >>
<1> DEFINE s == SubSeq(t, r + 1, Len(t))
<1>1. t \in Seq(Int) /\ Len(t) \in Nat /\ enter \in Int
  BY KeystrokeSeq DEF NL, CR
<1>2. \A k \in r + 1 .. Len(t) : t[k] \in Int
  BY <1>1, KeystrokeSeq
<1>3. s \in Seq(Int) /\ Len(s) = IF r + 1 <= Len(t) THEN Len(t) - (r + 1) + 1 ELSE 0
  BY <1>1, <1>2, SubSeqProperties
<1> HIDE DEF s
<1>4. ks = Append(s, enter)
  BY DEF s
<1>5. /\ ks # << >>
      /\ Head(ks) = IF s = << >> THEN enter ELSE Head(s)
      /\ Tail(ks) = IF s = << >> THEN << >> ELSE Append(Tail(s), enter)
  <2>1. ks # << >>
    BY <1>1, <1>3, <1>4, AppendProperties
  <2>2. /\ Head(Append(s, enter)) = IF s = << >> THEN enter ELSE Head(s)
        /\ Tail(Append(s, enter)) = IF s = << >> THEN << >> ELSE Append(Tail(s), enter)
    BY <1>3, HeadTailAppend, Zenon
  <2>3. QED
    BY <1>4, <2>1, <2>2, Zenon
<1>6. CASE r = Len(t)
  <2>1. s = << >>
    BY <1>1, <1>3, <1>6, EmptySeq
  <2>2. QED
    BY <1>1, <1>5, <1>6, <2>1
<1>7. CASE r < Len(t)
  <2>1. s # << >>
    BY <1>1, <1>3, <1>7, EmptySeq
  <2>2. r + 1 \in 1 .. Len(t) /\ Len(t) \in r + 1 .. Len(t)
    BY <1>1, <1>7
  <2>3. Head(s) = t[r + 1] /\ Tail(s) = SubSeq(t, (r + 1) + 1, Len(t))
    BY <1>1, <2>2, HeadTailOfSubSeq DEF s
  <2>4. r # Len(t)
    BY <1>1, <1>7
  <2>5. QED
    BY <1>5, <1>7, <2>1, <2>3, <2>4, Zenon
<1>8. r = Len(t) \/ r < Len(t)
  BY <1>1
<1>9. QED
  BY <1>6, <1>7, <1>8, Zenon
(* A keystroke before Enter.                                               *)
LEMMA ReadStep ==
  ASSUME NEW t \in Seq(Keystroke), NEW r \in Nat, NEW enter \in {NL, CR}, r < Len(t),
         Waiting(t, r, enter), readline
  PROVE  Waiting(t, r + 1, enter)'
<1> DEFINE c == t[r + 1]
           s == SubSeq(t, 1, r)
           u == SubSeq(t, 1, r + 1)
<1>0. Len(t) \in Nat
  BY KeystrokeSeq
<1>1. s \in Seq(Int) /\ u = Append(s, c) /\ c \in Int /\ ~(c \in {NL, CR})
  BY PrefixNext
<1>2. Head(keys) = c /\ Tail(keys) = Append(SubSeq(t, (r + 1) + 1, Len(t)), enter)
  <2>1. keys = Append(SubSeq(t, r + 1, Len(t)), enter)
    BY DEF Waiting
  <2>2. r <= Len(t)
    BY <1>0
  <2>3. QED
    BY <2>1, <2>2, KeysNext, ZenonT(60)
<1>3. EditOK(s) /\ \A k \in 0 .. r : EditOK(SubSeq(t, 1, k))
  BY DEF Waiting, Reading
<1> HIDE DEF c, s, u
<1>4. /\ keys' = Tail(keys) /\ smode' = smode /\ last' = last
      /\ \/ c \in Backspaces /\ ~full /\ full' = full /\ buf' = IF buf = << >> THEN buf ELSE Front(buf)
         \/ c \in Printable /\ ~full /\ buf' = Append(buf, c) /\ full' = (Len(buf') = bufsz - 1)
         \/ (full \/ ~(c \in Printable \cup Backspaces)) /\ buf' = buf /\ full' = full
  BY <1>1, <1>2, Zenon DEF readline
<1>5. EditOK(u)
  BY <1>1, <1>3, EditPrintable, EditBackspace, EditOther
<1>6. \A k \in 0 .. r + 1 : EditOK(SubSeq(t, 1, k))
  <2>1. \A k \in 0 .. r + 1 : k \in 0 .. r \/ k = r + 1
    OBVIOUS
  <2>2. QED
    BY <1>3, <1>5, <2>1, Zenon DEF u
<1>7. full \in BOOLEAN /\ bufsz' = bufsz /\ smode \in Modes
  BY <1>4 DEF Waiting, bufsz
<1>8. full' \in BOOLEAN /\ Reading(t, r + 1)'
  <2>1. CASE full
    <3>1. full' = full /\ buf' = buf
      BY <1>4, <2>1, Zenon
    <3>2. PICK f \in 0 .. r : /\ buf = Edited(SubSeq(t, 1, f)) /\ Fills(t, f, bufsz)
                              /\ \A k \in 0 .. f - 1 : ~Fills(t, k, bufsz)
      BY <2>1 DEF Waiting, Reading
    <3>3. f \in 0 .. r + 1
      OBVIOUS
    <3>4. QED
      BY <1>6, <1>7, <2>1, <3>1, <3>2, <3>3, Zenon DEF Reading
  <2>2. CASE ~full
    <3>1. /\ buf = Edited(s) /\ Len(Edited(s)) < bufsz - 1
          /\ \A k \in 0 .. r : ~Fills(t, k, bufsz)
      BY <2>2 DEF Waiting, Reading, s
    <3>a. bufsz \in Nat /\ Edited(s) \in Seq(Int) /\ Len(Edited(s)) \in Nat
      <4>1. bufsz \in Nat
        BY ShellAssumption DEF bufsz
      <4>2. QED
        BY <1>1, <1>3, <4>1, EditedSeq, LenProperties
    <3>2. \A k \in 0 .. r + 1 : k \in 0 .. r \/ k = r + 1
      OBVIOUS
    <3>3. (r + 1) - 1 = r /\ r + 1 \in 0 .. r + 1 /\ r \in 0 .. r
      OBVIOUS
    <3>4. Fills(t, r + 1, bufsz) <=> Len(Edited(u)) = bufsz - 1
      BY DEF Fills, u
    <3>5. ASSUME Edited(u) = buf', full' <=> Fills(t, r + 1, bufsz), full' \in BOOLEAN,
                 ~Fills(t, r + 1, bufsz) => Len(Edited(u)) < bufsz - 1
          PROVE  Reading(t, r + 1)'
      <4>1. CASE Fills(t, r + 1, bufsz)
        BY <1>6, <1>7, <3>1, <3>3, <3>5, <4>1, Zenon DEF Reading, u
      <4>2. CASE ~Fills(t, r + 1, bufsz)
        BY <1>6, <1>7, <3>1, <3>2, <3>5, <4>2, Zenon DEF Reading, u
      <4>3. QED
        BY <4>1, <4>2
    <3>6. CASE c \in Printable
      <4>1. ~(c \in Backspaces)
        BY <3>6 DEF Printable, Backspaces
      <4>2. buf' = Append(buf, c) /\ full' = (Len(buf') = bufsz - 1)
        BY <1>4, <2>2, <3>6, <4>1, Zenon
      <4>3. Edited(u) = buf'
        BY <1>1, <1>3, <3>1, <3>6, <4>2, EditPrintable
      <4>4. full' \in BOOLEAN /\ (full' <=> Fills(t, r + 1, bufsz))
        BY <3>4, <4>2, <4>3, Zenon
      <4>5. Len(Edited(u)) = Len(Edited(s)) + 1
        BY <1>1, <3>1, <3>a, <4>2, <4>3, AppendProperties
      <4>6. ~Fills(t, r + 1, bufsz) => Len(Edited(u)) < bufsz - 1
        BY <3>1, <3>4, <3>a, <4>5
      <4>7. QED
        BY <3>5, <4>3, <4>4, <4>6
    <3>7. ASSUME Edited(u) = buf', full' = full, Len(Edited(u)) \in Nat, Len(Edited(u)) <= Len(Edited(s))
          PROVE  full' \in BOOLEAN /\ Reading(t, r + 1)'
      <4>1. Len(Edited(u)) < bufsz - 1 /\ Len(Edited(u)) # bufsz - 1
        BY <3>1, <3>a, <3>7
      <4>2. QED
        BY <1>7, <2>2, <3>4, <3>5, <3>7, <4>1, Zenon
    <3>9. CASE c \in Backspaces
      <4>1. ~(c \in Printable)
        BY <3>9 DEF Printable, Backspaces
      <4>2. buf' = IF buf = << >> THEN buf ELSE Front(buf)
        BY <1>4, <2>2, <3>9, <4>1, Zenon
      <4>3. Edited(u) = buf'
        BY <1>1, <1>3, <3>1, <3>9, <4>2, EditBackspace
      <4>4. full' = full
        BY <1>4, <2>2, <3>9, <4>1, Zenon
      <4>5. Len(Edited(u)) \in Nat /\ Len(Edited(u)) <= Len(Edited(s))
        <5>1. CASE buf = << >>
          BY <3>1, <3>a, <4>2, <4>3, <5>1
        <5>2. CASE buf # << >>
          <6>1. Len(Edited(s)) > 0
            BY <3>1, <3>a, <5>2, EmptySeq
          <6>2. Edited(u) = SubSeq(Edited(s), 1, Len(Edited(s)) - 1)
            BY <3>1, <4>2, <4>3, <5>2 DEF Front
          <6>3. \A k \in 1 .. Len(Edited(s)) - 1 : Edited(s)[k] \in Int
            BY <3>a, ElementOfSeq
          <6>4. Len(Edited(u)) = Len(Edited(s)) - 1
            <7> DEFINE e == Edited(s)
                       q == Len(e) - 1
            <7>1. q \in Nat /\ Edited(u) = SubSeq(e, 1, q) /\ \A k \in 1 .. q : e[k] \in Int
              BY <3>a, <6>1, <6>2, <6>3
            <7> HIDE DEF q, e
            <7>2. Len(SubSeq(e, 1, q)) = q
              BY <7>1, SubSeqProperties
            <7>3. QED
              BY <7>1, <7>2 DEF q, e
          <6>5. QED
            BY <3>a, <6>1, <6>4
        <5>3. QED
          BY <5>1, <5>2
      <4>6. QED
        BY <3>7, <4>3, <4>4, <4>5
    <3>10. CASE ~(c \in Printable \cup Backspaces)
      <4>1. buf' = buf /\ full' = full
        BY <1>4, <2>2, <3>10, Zenon
      <4>2. Edited(u) = Edited(s)
        BY <1>1, <1>3, <3>10, EditOther
      <4>3. Len(Edited(u)) \in Nat /\ Len(Edited(u)) <= Len(Edited(s)) /\ Edited(u) = buf'
        BY <3>1, <3>a, <4>1, <4>2
      <4>4. QED
        BY <3>7, <4>1, <4>3
    <3>11. QED
      BY <3>6, <3>9, <3>10
  <2>3. QED
    BY <1>7, <2>1, <2>2
<1>9. QED
  BY <1>2, <1>4, <1>7, <1>8, Zenon DEF Waiting
(* Enter: the caller gets the line.                                        *)
LEMMA EnterStep ==
  ASSUME NEW t \in Seq(Keystroke), NEW r \in Nat, NEW enter \in {NL, CR}, r = Len(t),
         Waiting(t, r, enter), readline
  PROVE  keys' = << >> /\ buf' = << >> /\ full' = FALSE /\ LinesAsTyped'
<1>0. t \in Seq(Int) /\ Len(t) \in Nat /\ r <= Len(t) /\ SubSeq(t, 1, Len(t)) = t
  BY KeystrokeSeq, SubSeqFull
<1>1. Head(keys) = enter /\ Tail(keys) = << >>
  <2>1. keys = Append(SubSeq(t, r + 1, Len(t)), enter)
    BY DEF Waiting
  <2>2. r <= Len(t)
    BY <1>0
  <2>3. r = Len(t) => Head(keys) = enter /\ Tail(keys) = << >>
    BY <2>1, <2>2, KeysNext
  <2>4. QED
    BY <2>3
<1>2. ~(enter \in Backspaces) /\ ~(enter \in Printable)
  BY DEF NL, CR, Backspaces, Printable
<1>3. Return /\ keys' = << >>
  BY <1>1, <1>2, Zenon DEF readline
<1>4. /\ last.mode = smode /\ last.typed = t
      /\ last = [mode |-> smode, typed |-> t, line |-> << >>, answer |-> Nothing]
      /\ bufsz = IF last.mode = "menu" THEN MenuBuf ELSE LineBuf
  BY DEF Waiting, bufsz
<1>5. last'.mode = smode /\ last'.typed = t /\ last'.line = buf
  BY <1>3, <1>4 DEF Return
<1> DEFINE fills == {k \in 0 .. Len(t) : Len(Edited(SubSeq(t, 1, k))) = bufsz - 1}
<1>6. \A k : k \in fills <=> k \in 0 .. Len(t) /\ Fills(t, k, bufsz)
  BY DEF Fills
<1>7. buf = Edited(IF fills = {} THEN t ELSE SubSeq(t, 1, Min(fills)))
  <2> HIDE DEF fills
  <2>1. CASE full
    <3>1. PICK f \in 0 .. r : /\ buf = Edited(SubSeq(t, 1, f)) /\ Fills(t, f, bufsz)
                              /\ \A k \in 0 .. f - 1 : ~Fills(t, k, bufsz)
      BY <2>1 DEF Waiting, Reading
    <3>2. f \in fills /\ fills # {} /\ \A k \in fills : k \in Nat /\ f <= k
      <4>1. f \in fills
        BY <1>6, <3>1
      <4>2. ASSUME NEW k \in fills PROVE k \in Nat /\ f <= k
        <5>1. k \in 0 .. Len(t) /\ Fills(t, k, bufsz)
          BY <1>6
        <5>2. ~(k \in 0 .. f - 1)
          BY <3>1, <5>1
        <5>3. QED
          BY <1>0, <3>1, <5>1, <5>2
      <4>3. QED
        BY <4>1, <4>2
    <3>3. Min(fills) = f
      <4> DEFINE x == Min(fills)
      <4>1. x \in fills /\ \A y \in fills : x <= y
        <5>1. \E z \in fills : \A y \in fills : z <= y
          BY <3>2
        <5>2. QED
          BY <5>1 DEF Min
      <4> HIDE DEF x
      <4>2. x \in Nat /\ f \in Nat /\ x <= f /\ f <= x
        BY <3>2, <4>1
      <4>3. x = f
        BY <4>2
      <4>4. QED
        BY <4>3 DEF x
    <3>4. QED
      BY <3>1, <3>2, <3>3
  <2>2. CASE ~full
    <3>1. buf = Edited(SubSeq(t, 1, r)) /\ \A k \in 0 .. r : ~Fills(t, k, bufsz)
      BY <2>2 DEF Waiting, Reading
    <3>2. fills = {}
      BY <1>6, <3>1
    <3>3. QED
      BY <1>0, <3>1, <3>2
  <2>3. QED
    BY <2>1, <2>2
<1>8. bufsz = IF last'.mode = "menu" THEN MenuBuf ELSE LineBuf
  BY <1>4, <1>5
<1>9. LinesAsTyped'
  BY <1>5, <1>7, <1>8 DEF LinesAsTyped
<1>10. QED
  BY <1>3, <1>9 DEF Return

(* A line is typed.                                                        *)
LEMMA TypeStep ==
  ASSUME ShellInv, Type
  PROVE  ShellInv'
<1>1. PICK t \in Typed[smode], enter \in {NL, CR} :
        /\ keys' = Append(t, enter)
        /\ last' = [mode |-> smode, typed |-> t, line |-> << >>, answer |-> Nothing]
  BY DEF Type
<1>2. smode \in Modes /\ smode' = smode /\ buf' = << >> /\ full' = FALSE
  BY DEF Type, ShellInv
<1>3. t \in Seq(Keystroke)
  BY <1>2, ShellAssumption DEF Keystroke
<1>4. /\ t \in Seq(Int) /\ Len(t) \in Nat /\ enter \in Int
      /\ SubSeq(t, 1, 0) = << >> /\ SubSeq(t, 0 + 1, Len(t)) = t
  <2>1. t \in Seq(Int) /\ Len(t) \in Nat /\ enter \in Int
    BY <1>3, KeystrokeSeq DEF NL, CR
  <2>2. SubSeq(t, 1, 0) = << >>
    BY SubSeqEmpty
  <2>3. SubSeq(t, 1, Len(t)) = t /\ 0 + 1 = 1
    BY <2>1, SubSeqFull
  <2>4. QED
    BY <2>1, <2>2, <2>3, Zenon
<1>5. keys' # << >>
  BY <1>1, <1>4, AppendProperties
<1>6. Reading(t, 0)'
  <2>1. \A k \in 0 .. 0 : k = 0
    OBVIOUS
  <2>2. Edited(SubSeq(t, 1, 0)) = << >> /\ EditOK(SubSeq(t, 1, 0)) /\ Len(<< >>) = 0
    BY <1>4, EditEmpty
  <2>3. bufsz' = bufsz /\ bufsz \in Nat /\ 0 < bufsz - 1 /\ 0 # bufsz - 1
    BY <1>2, ShellAssumption DEF bufsz
  <2>4. \A k \in 0 .. 0 : ~Fills(t, k, bufsz) /\ EditOK(SubSeq(t, 1, k))
    BY <2>1, <2>2, <2>3 DEF Fills
  <2>5. QED
    BY <1>2, <2>2, <2>3, <2>4, Zenon DEF Reading
<1>7. Waiting(t, 0, enter)'
  BY <1>1, <1>2, <1>4, <1>6 DEF Waiting
<1>8. 0 \in Nat /\ 0 <= Len(t)
  BY <1>4
<1>9. LinesAsTyped'
  BY <1>5 DEF LinesAsTyped, Answered
<1>10. QED
  BY <1>3, <1>5, <1>7, <1>8, <1>9 DEF ShellInv

(* readline, in the middle of a line and at its end.                       *)
LEMMA ReadlineStep ==
  ASSUME ShellInv, readline
  PROVE  ShellInv'
<1>1. keys # << >>
  BY DEF readline
<1>2. PICK t \in Seq(Keystroke), r \in Nat, enter \in {NL, CR} : r <= Len(t) /\ Waiting(t, r, enter)
  BY <1>1 DEF ShellInv
<1>3. Len(t) \in Nat
  BY <1>2, KeystrokeSeq
<1>4. CASE r < Len(t)
  <2>1. Waiting(t, r + 1, enter)'
    BY <1>2, <1>4, ReadStep
  <2>2. r + 1 \in Nat /\ r + 1 <= Len(t)
    BY <1>3, <1>4
  <2>3. keys' # << >>
    <3>1. keys' = Append(SubSeq(t, (r + 1) + 1, Len(t)), enter)
      BY <2>1 DEF Waiting
    <3>2. QED
      BY <2>2, <3>1, KeysNext, Zenon
  <2>4. LinesAsTyped'
    BY <2>3 DEF LinesAsTyped, Answered
  <2>5. QED
    BY <2>1, <2>2, <2>3, <2>4 DEF ShellInv
<1>5. CASE r = Len(t)
  <2>1. keys' = << >> /\ buf' = << >> /\ full' = FALSE /\ LinesAsTyped'
    BY <1>2, <1>5, EnterStep
  <2>2. QED
    BY <2>1 DEF ShellInv
<1>6. QED
  BY <1>2, <1>3, <1>4, <1>5

LEMMA ShellSame ==
  ASSUME ShellInv, UNCHANGED <<keys, buf, full, last>>, keys = << >> \/ smode' = smode
  PROVE  ShellInv'
<1>1. LinesAsTyped'
  BY DEF ShellInv, LinesAsTyped, Answered
<1>2. CASE keys = << >>
  BY <1>1, <1>2 DEF ShellInv
<1>3. CASE keys # << >> /\ smode' = smode
  <2>1. PICK t \in Seq(Keystroke), r \in Nat, enter \in {NL, CR} : r <= Len(t) /\ Waiting(t, r, enter)
    BY <1>3 DEF ShellInv
  <2>2. bufsz' = bufsz
    BY <1>3 DEF bufsz
  <2>3. Reading(t, r)'
    BY <2>1, <2>2 DEF Waiting, Reading
  <2>4. Waiting(t, r, enter)'
    BY <1>3, <2>1, <2>3 DEF Waiting
  <2>5. QED
    BY <1>1, <1>3, <2>1, <2>4 DEF ShellInv
<1>4. QED
  BY <1>2, <1>3

LEMMA ShellInitially == Init => ShellInv
<1> SUFFICES ASSUME Init PROVE ShellInv
  OBVIOUS
<1>1. keys = << >> /\ buf = << >> /\ full = FALSE /\ last = NoLine
  BY DEF Init, ShellInit
<1>2. ~(last.mode \in Modes)
  BY <1>1 DEF NoLine, Modes
<1>3. LinesAsTyped
  BY <1>2 DEF LinesAsTyped, Answered
<1>4. QED
  BY <1>1, <1>3 DEF ShellInv

LEMMA ShellStep == ShellInv /\ [Next]_vars => ShellInv'
<1> SUFFICES ASSUME ShellInv, [Next]_vars PROVE ShellInv'
  OBVIOUS
<1>1. CASE KernelNext /\ UNCHANGED shellVars
  BY <1>1, ShellSame DEF shellVars
<1>2. CASE StartShell
  <2>1. smode = "off" /\ UNCHANGED <<keys, buf, full, last>>
    BY <1>2 DEF StartShell
  <2>2. keys = << >>
    BY <2>1 DEF ShellInv, Waiting, Modes
  <2>3. QED
    BY <2>1, <2>2, ShellSame
<1>3. CASE Prompt
  <2>1. keys = << >> /\ UNCHANGED <<smode, keys, buf, full>> /\ last' = NoLine
    BY <1>3 DEF Prompt
  <2>2. ~(last'.mode \in Modes)
    BY <2>1 DEF NoLine, Modes
  <2>3. LinesAsTyped'
    BY <2>2 DEF LinesAsTyped, Answered
  <2>4. QED
    BY <2>1, <2>3 DEF ShellInv
<1>4. CASE Type
  BY <1>4, TypeStep
<1>5. CASE readline
  BY <1>5, ReadlineStep
<1>6. CASE UNCHANGED vars
  BY <1>6, ShellSame DEF vars
<1>7. QED
  BY <1>1, <1>2, <1>3, <1>4, <1>5, <1>6 DEF Next, ShellNext, Stopped

LEMMA ShellInvariant == Spec => []ShellInv
  BY ShellInitially, ShellStep, PTL DEF Spec

(* For buffers of every size and every sequence of keystrokes, backspaces  *)
(* and control characters among them: the line that readline returns is    *)
(* what was typed and not taken back, up to where it filled the buffer.    *)
THEOREM ReadlineCorrect == Spec => []LinesAsTyped
<1>1. ShellInv => LinesAsTyped
  BY DEF ShellInv
<1>2. QED
  BY <1>1, ShellInvariant, PTL

(* readline never has more characters than the buffer holds with their     *)
(* terminating NUL, and there is always room for that.                     *)
THEOREM BufferHolds == Spec => [](Len(buf) <= bufsz - 1)
<1>1. ASSUME ShellInv PROVE Len(buf) <= bufsz - 1
  <2>0. bufsz \in Nat /\ 0 < bufsz - 1
    BY ShellAssumption DEF bufsz
  <2>1. CASE keys = << >>
    <3>1. Len(buf) = 0
      BY <1>1, <2>1, EmptySeq DEF ShellInv
    <3>2. QED
      BY <2>0, <3>1
  <2>2. CASE keys # << >>
    <3>1. PICK t \in Seq(Keystroke), r \in Nat, enter \in {NL, CR} : r <= Len(t) /\ Waiting(t, r, enter)
      BY <1>1, <2>2 DEF ShellInv
    <3>2. CASE full
      <4>1. Len(buf) = bufsz - 1
        BY <3>1, <3>2 DEF Waiting, Reading, Fills
      <4>2. QED
        BY <2>0, <4>1
    <3>3. CASE ~full
      <4>1. Len(buf) < bufsz - 1 /\ buf = Edited(SubSeq(t, 1, r)) /\ EditOK(SubSeq(t, 1, r))
        BY <3>1, <3>3 DEF Waiting, Reading
      <4>2. t \in Seq(Int) /\ Len(t) \in Nat /\ \A k \in 1 .. Len(t) : t[k] \in Int
        BY <3>1, KeystrokeSeq
      <4>3. \A k \in 1 .. r : t[k] \in Int
        BY <3>1, <4>2
      <4>4. SubSeq(t, 1, r) \in Seq(Int)
        BY <4>3, SubSeqProperties
      <4>5. Len(buf) \in Nat
        BY <4>1, <4>4, EditedSeq, LenProperties
      <4>6. QED
        BY <2>0, <4>1, <4>5
    <3>4. QED
      BY <3>2, <3>3
  <2>3. QED
    BY <2>1, <2>2
<1>2. QED
  BY <1>1, ShellInvariant, PTL
-----------------------------------------------------------------------------
(* Division of natural numbers.                                            *)
LEMMA DivMod ==
  ASSUME NEW m \in Nat, NEW d \in Nat \ {0}
  PROVE  /\ m \div d \in Nat /\ m % d \in Nat /\ m % d < d
         /\ m = d * (m \div d) + (m % d)
  OBVIOUS

LEMMA ModSmall ==
  ASSUME NEW m \in Nat, NEW d \in Nat \ {0}, m < d
  PROVE  m % d = m
  OBVIOUS

LEMMA ModSelf ==
  ASSUME NEW d \in Nat \ {0}
  PROVE  d % d = 0
  OBVIOUS

LEMMA WrapInts ==
  ASSUME NEW n \in Ints
  PROVE  Wrap(n) = n
<1> DEFINE m == n - INT_MIN
           d == 2 * (INT_MAX + 1)
<1>1. m \in Nat /\ d \in Nat \ {0} /\ m < d /\ n \in Int /\ INT_MIN \in Int
  BY ShellAssumption DEF Ints, INT_MIN
<1>2. Wrap(n) = (m % d) + INT_MIN
  BY DEF Wrap
<1> HIDE DEF d
<1>3. m % d = m
  <2> HIDE DEF m
  <2>1. QED
    BY <1>1, ModSmall
<1>4. QED
  BY <1>1, <1>2, <1>3

(* The magnitude of INT_MIN wraps around to INT_MIN.                       *)
LEMMA WrapMagnitude == Wrap(INT_MAX + 1) = INT_MIN
<1> DEFINE d == 2 * (INT_MAX + 1)
<1>1. d \in Nat \ {0} /\ (INT_MAX + 1) - INT_MIN = d /\ INT_MIN \in Int
  BY ShellAssumption DEF INT_MIN
<1>2. Wrap(INT_MAX + 1) = (((INT_MAX + 1) - INT_MIN) % d) + INT_MIN
  BY DEF Wrap
<1> HIDE DEF d
<1>3. d % d = 0
  BY <1>1, ModSelf
<1>4. Wrap(INT_MAX + 1) = 0 + INT_MIN
  BY <1>1, <1>2, <1>3, Zenon
<1>5. QED
  BY <1>1, <1>4

(* The recursion of Pow10.                                                 *)
LEMMA Pow10Recursion ==
  /\ Pow10 \in [0 .. INT_MAX + 1 -> Nat] /\ Pow10[0] = 1
  /\ \A k \in 1 .. INT_MAX + 1 : Pow10[k] = 10 * Pow10[k - 1]
<1> DEFINE N == INT_MAX + 1
           Body(f) == [k \in 0 .. N |-> IF k = 0 THEN 1 ELSE 10 * f[k - 1]]
           step == [k \in 1 .. N |-> [s \in Nat |-> 10 * s]]
<1>1. N \in Nat
  BY ShellAssumption
<1>2. Pow10 = CHOOSE f : f = Body(f)
  BY DEF Pow10
<1> HIDE DEF N
<1>3. PICK f : Recursive(f, N, Nat, 1, step)
  <2>1. 1 \in Nat /\ step \in StepFunctions(N, Nat)
    BY DEF StepFunctions
  <2> HIDE DEF step
  <2>2. QED
    BY <1>1, <2>1, RecursionUpTo, Zenon
<1>4. f = Body(f)
  <2>1. ASSUME NEW k \in 0 .. N PROVE f[k] = Body(f)[k]
    <3>1. CASE k = 0
      BY <3>1, <1>3 DEF Recursive
    <3>2. CASE k # 0
      <4>1. k \in 1 .. N /\ k - 1 \in 0 .. N
        BY <1>1, <3>2
      <4>2. f[k] = step[k][f[k - 1]] /\ f[k - 1] \in Nat
        BY <1>3, <4>1 DEF Recursive
      <4>3. QED
        BY <3>2, <4>1, <4>2
    <3>3. QED
      BY <3>1, <3>2
  <2>2. f = [k \in 0 .. N |-> f[k]]
    BY <1>3 DEF Recursive
  <2>3. QED
    BY <2>1, <2>2
<1>5. Pow10 = Body(Pow10)
  <2> HIDE DEF Body
  <2>1. QED
    BY <1>2, <1>4, Zenon
<1>6. Pow10[0] = 1 /\ \A k \in 1 .. N : Pow10[k] = 10 * Pow10[k - 1]
  <2>1. Pow10[0] = 1
    BY <1>1, <1>5
  <2>2. ASSUME NEW k \in 1 .. N PROVE Pow10[k] = 10 * Pow10[k - 1]
    <3>1. k \in 0 .. N /\ k # 0
      BY <1>1
    <3>2. Body(Pow10)[k] = 10 * Pow10[k - 1]
      BY <3>1
    <3> HIDE DEF Body
    <3>3. QED
      BY <1>5, <3>2, Zenon
  <2>3. QED
    BY <2>1, <2>2
<1>7. \A k \in 0 .. N : Pow10[k] \in Nat
  <2> DEFINE T == {k \in 0 .. N : Pow10[k] \in Nat}
  <2>1. 0 \in T
    BY <1>1, <1>6
  <2>2. ASSUME NEW k \in 0 .. N - 1, k \in T PROVE k + 1 \in T
    <3>1. k + 1 \in 1 .. N /\ (k + 1) - 1 = k /\ k + 1 \in 0 .. N
      BY <1>1
    <3>2. Pow10[k + 1] = 10 * Pow10[k] /\ Pow10[k] \in Nat
      BY <1>6, <2>2, <3>1
    <3>3. QED
      BY <3>1, <3>2
  <2> HIDE DEF T
  <2>3. 0 .. N \subseteq T
    BY <1>1, <2>1, <2>2, InductionUpTo
  <2>4. QED
    BY <2>3 DEF T
<1>8. Pow10 \in [0 .. N -> Nat]
  <2>1. Pow10 = [k \in 0 .. N |-> Pow10[k]]
    BY <1>5
  <2>2. QED
    BY <1>7, <2>1
<1>9. QED
  BY <1>6, <1>8 DEF N

LEMMA Pow10Facts ==
  ASSUME NEW k \in Nat, k <= INT_MAX + 1
  PROVE  Pow10[k] \in Nat \ {0} /\ k < Pow10[k] /\ (k > 0 => Pow10[k] = 10 * Pow10[k - 1])
<1> DEFINE T == {j \in 0 .. INT_MAX + 1 : Pow10[j] \in Nat /\ j < Pow10[j]}
<1>1. INT_MAX + 1 \in Nat
  BY ShellAssumption
<1>2. 0 \in T
  BY <1>1, Pow10Recursion
<1>3. ASSUME NEW j \in 0 .. (INT_MAX + 1) - 1, j \in T PROVE j + 1 \in T
  <2>1. j + 1 \in 1 .. INT_MAX + 1 /\ (j + 1) - 1 = j
    BY <1>1
  <2>2. Pow10[j + 1] = 10 * Pow10[j]
    BY <2>1, Pow10Recursion
  <2>3. Pow10[j] \in Nat /\ j < Pow10[j]
    BY <1>3
  <2>4. QED
    BY <2>1, <2>2, <2>3
<1> HIDE DEF T
<1>4. 0 .. INT_MAX + 1 \subseteq T
  BY <1>1, <1>2, <1>3, InductionUpTo
<1>5. k \in T
  BY <1>1, <1>4
<1>6. k > 0 => Pow10[k] = 10 * Pow10[k - 1]
  BY <1>1, Pow10Recursion
<1>7. QED
  BY <1>5, <1>6 DEF T

(* The first loop stops at the power of ten of the first digit.            *)
LEMMA TurnsFacts ==
  ASSUME NEW m \in Nat, m <= INT_MAX + 1
  PROVE  /\ Turns(m) \in Nat /\ Turns(m) <= m
         /\ m < 10 * Pow10[Turns(m)]
         /\ Turns(m) > 0 => Pow10[Turns(m)] <= m
<1> DEFINE Top(k) == m \div Pow10[k] <= 9 /\ \A j \in 0 .. k - 1 : m \div Pow10[j] > 9
           T == {k \in 0 .. m : m \div Pow10[k] <= 9}
<1>0. INT_MAX \in Nat
  BY ShellAssumption
<1>1. \A k \in 0 .. m : Pow10[k] \in Nat \ {0} /\ m \div Pow10[k] \in Nat
                        /\ m % Pow10[k] \in Nat /\ m % Pow10[k] < Pow10[k]
                        /\ m = Pow10[k] * (m \div Pow10[k]) + (m % Pow10[k])
  <2>1. ASSUME NEW k \in 0 .. m PROVE k \in Nat /\ k <= INT_MAX + 1
    BY <1>0
  <2>2. \A k \in 0 .. m : Pow10[k] \in Nat \ {0}
    BY <2>1, Pow10Facts
  <2>3. QED
    BY <2>2, DivMod
<1>2. m \div Pow10[m] = 0
  <2>1. Pow10[m] \in Nat \ {0} /\ m < Pow10[m]
    BY Pow10Facts
  <2>2. QED
    BY <2>1
<1>3. m \in T
  BY <1>2
<1>4. PICK x \in T : \A y \in T : x <= y
  <2>1. T \subseteq Nat /\ T # {}
    BY <1>3
  <2> HIDE DEF T
  <2>2. QED
    BY <2>1, LeastElement
<1>5. x \in 0 .. m /\ Top(x)
  <2>1. ASSUME NEW j \in 0 .. x - 1 PROVE m \div Pow10[j] > 9
    <3>1. j \in 0 .. m /\ j < x
      BY <1>4
    <3>2. ~(j \in T)
      BY <1>4, <3>1
    <3>3. ~(m \div Pow10[j] <= 9) /\ m \div Pow10[j] \in Nat
      BY <1>1, <3>1, <3>2
    <3>4. QED
      BY <3>3
  <2>2. QED
    BY <1>4, <2>1
<1> DEFINE c == Turns(m)
<1>6. c \in 0 .. m /\ Top(c)
  <2>1. c = CHOOSE k \in 0 .. m : Top(k)
    BY DEF Turns
  <2> HIDE DEF Top
  <2>2. QED
    BY <1>5, <2>1, Zenon
<1> HIDE DEF c
<1>7. m < 10 * Pow10[c]
  <2>1. m \div Pow10[c] <= 9
    BY <1>6
  <2> DEFINE p == Pow10[c]
             q == m \div p
             r == m % p
  <2>2. p \in Nat /\ q \in Nat /\ r \in Nat /\ r < p /\ m = p * q + r /\ q <= 9
    BY <1>1, <1>6, <2>1
  <2> HIDE DEF p, q, r
  <2>3. p * q <= p * 9
    BY <2>2
  <2>4. QED
    BY <2>2, <2>3 DEF p
<1>8. ASSUME c > 0 PROVE Pow10[c] <= m
  <2>1. c - 1 \in 0 .. c - 1 /\ c - 1 \in 0 .. m /\ c \in Nat /\ c <= INT_MAX + 1
    BY <1>0, <1>6, <1>8
  <2>2. m \div Pow10[c - 1] > 9 /\ Pow10[c] = 10 * Pow10[c - 1]
    <3>1. m \div Pow10[c - 1] > 9
      BY <1>6, <2>1
    <3>2. Pow10[c] = 10 * Pow10[c - 1]
      BY <1>8, <2>1, Pow10Facts
    <3>3. QED
      BY <3>1, <3>2
  <2> DEFINE p == Pow10[c - 1]
             q == m \div p
             r == m % p
  <2>3. p \in Nat /\ q \in Nat /\ r \in Nat /\ r < p /\ m = p * q + r /\ q > 9
    BY <1>1, <2>1, <2>2
  <2> HIDE DEF p, q, r
  <2>4. p * q >= p * 10
    BY <2>3
  <2>5. QED
    BY <2>2, <2>3, <2>4 DEF p
<1>9. QED
  BY <1>6, <1>7, <1>8 DEF c

-----------------------------------------------------------------------------
(* What printf writes.                                                     *)

\* g is the magnitude after each turn of the second loop.
Rests(g, m, top) ==
  /\ g \in [0 .. top -> Nat] /\ g[0] = m
  /\ \A k \in 1 .. top : g[k] = g[k - 1] % Pow10[top + 1 - k]

LEMMA DigitsUnfold ==
  ASSUME NEW m \in Nat, m <= INT_MAX + 1
  PROVE  \E g : /\ Rests(g, m, Turns(m))
                /\ Digits(m) = [k \in 1 .. Turns(m) + 1 |->
                                  48 + (g[k - 1] \div Pow10[Turns(m) + 1 - k])]
<1> DEFINE top == Turns(m)
           Body(f) == [k \in 0 .. top |-> IF k = 0 THEN m ELSE f[k - 1] % Pow10[top + 1 - k]]
           g == CHOOSE f : f = Body(f)
           step == [k \in 1 .. top |-> [s \in Nat |-> s % Pow10[top + 1 - k]]]
<1>1. top \in Nat /\ top <= INT_MAX + 1 /\ INT_MAX \in Nat
  BY TurnsFacts, ShellAssumption
<1>2. Digits(m) = [k \in 1 .. top + 1 |-> 48 + (g[k - 1] \div Pow10[top + 1 - k])]
  BY DEF Digits
<1> HIDE DEF top
<1>3. ASSUME NEW k \in 1 .. top, NEW s \in Nat PROVE s % Pow10[top + 1 - k] \in Nat
  <2>1. top + 1 - k \in Nat /\ top + 1 - k <= INT_MAX + 1
    BY <1>1
  <2>2. Pow10[top + 1 - k] \in Nat \ {0}
    BY <2>1, Pow10Facts
  <2>3. QED
    BY <2>2, DivMod
<1>4. PICK f : Recursive(f, top, Nat, m, step)
  <2>1. step \in StepFunctions(top, Nat)
    BY <1>3 DEF StepFunctions
  <2> HIDE DEF step
  <2>2. QED
    BY <1>1, <2>1, RecursionUpTo, Zenon
<1>5. f = Body(f)
  <2>1. ASSUME NEW k \in 0 .. top PROVE f[k] = Body(f)[k]
    <3>1. CASE k = 0
      BY <3>1, <1>4 DEF Recursive
    <3>2. CASE k # 0
      <4>1. k \in 1 .. top /\ k - 1 \in 0 .. top
        BY <1>1, <3>2
      <4>2. f[k] = step[k][f[k - 1]] /\ f[k - 1] \in Nat
        BY <1>4, <4>1 DEF Recursive
      <4>3. QED
        BY <3>2, <4>1, <4>2
    <3>3. QED
      BY <3>1, <3>2
  <2>2. f = [k \in 0 .. top |-> f[k]]
    BY <1>4 DEF Recursive
  <2>3. QED
    BY <2>1, <2>2
<1>6. g = Body(g)
  <2> HIDE DEF Body
  <2>1. QED
    BY <1>5, Zenon
<1> HIDE DEF g
<1>7. g[0] = m
  BY <1>1, <1>6
<1>8. ASSUME NEW k \in 1 .. top PROVE g[k] = g[k - 1] % Pow10[top + 1 - k]
  <2>1. k \in 0 .. top /\ k # 0
    BY <1>1
  <2>2. Body(g)[k] = g[k - 1] % Pow10[top + 1 - k]
    BY <2>1
  <2> HIDE DEF Body
  <2>3. QED
    BY <1>6, <2>2, Zenon
<1>9. \A k \in 0 .. top : g[k] \in Nat
  <2> DEFINE T == {k \in 0 .. top : g[k] \in Nat}
  <2>1. 0 \in T
    BY <1>1, <1>7
  <2>2. ASSUME NEW k \in 0 .. top - 1, k \in T PROVE k + 1 \in T
    <3>1. k + 1 \in 1 .. top /\ (k + 1) - 1 = k /\ k + 1 \in 0 .. top
      BY <1>1
    <3>2. g[k + 1] = g[k] % Pow10[top + 1 - (k + 1)] /\ g[k] \in Nat
      BY <1>8, <2>2, <3>1
    <3>3. g[k] % Pow10[top + 1 - (k + 1)] \in Nat
      BY <1>3, <3>1, <3>2
    <3>4. QED
      BY <3>1, <3>2, <3>3
  <2> HIDE DEF T
  <2>3. 0 .. top \subseteq T
    BY <1>1, <2>1, <2>2, InductionUpTo
  <2>4. QED
    BY <2>3 DEF T
<1>10. Rests(g, m, top)
  <2>1. g = [k \in 0 .. top |-> g[k]]
    BY <1>6
  <2>2. g \in [0 .. top -> Nat]
    BY <1>9, <2>1
  <2>3. QED
    BY <1>7, <1>8, <2>2 DEF Rests
<1>11. QED
  BY <1>2, <1>10 DEF top

(* What is left after k digits is less than the power of ten of the last.  *)
LEMMA RestBound ==
  ASSUME NEW m \in Nat, m <= INT_MAX + 1, NEW g, Rests(g, m, Turns(m)),
         NEW k \in Nat, k <= Turns(m)
  PROVE  g[k] \in Nat /\ g[k] < 10 * Pow10[Turns(m) - k]
<1> DEFINE top == Turns(m)
<1>1. top \in Nat /\ top <= INT_MAX + 1 /\ INT_MAX \in Nat /\ m < 10 * Pow10[top]
  BY TurnsFacts, ShellAssumption
<1>2. g \in [0 .. top -> Nat] /\ g[0] = m /\ \A j \in 1 .. top : g[j] = g[j - 1] % Pow10[top + 1 - j]
  BY DEF Rests
<1> HIDE DEF top
<1>3. CASE k = 0
  <2>1. top - k = top
    BY <1>1, <1>3
  <2>2. QED
    BY <1>1, <1>2, <1>3, <2>1 DEF top
<1>4. CASE k # 0
  <2>1. k \in 1 .. top /\ top - k \in Nat /\ top + 1 - k \in Nat /\ top + 1 - k <= INT_MAX + 1
        /\ top + 1 - k > 0 /\ (top + 1 - k) - 1 = top - k /\ k - 1 \in 0 .. top
    BY <1>1, <1>4 DEF top
  <2>2. Pow10[top + 1 - k] \in Nat \ {0} /\ Pow10[top + 1 - k] = 10 * Pow10[top - k]
    BY <2>1, Pow10Facts
  <2>3. g[k - 1] \in Nat
    BY <1>2, <2>1
  <2>4. g[k - 1] % Pow10[top + 1 - k] \in Nat /\ g[k - 1] % Pow10[top + 1 - k] < Pow10[top + 1 - k]
    BY <2>2, <2>3, DivMod
  <2>5. QED
    BY <1>2, <2>1, <2>2, <2>4 DEF top
<1>5. QED
  BY <1>3, <1>4

LEMMA HornerStep ==
  ASSUME NEW h \in Nat, NEW p \in Nat \ {0}, NEW a \in Nat
  PROVE  h * (10 * p) + a = (10 * h + (a \div p)) * p + (a % p)
<1> DEFINE q == a \div p
           r == a % p
<1>1. q \in Nat /\ r \in Nat /\ a = p * q + r
  BY DivMod
<1> HIDE DEF q, r
<1>2. (10 * h + q) * p + r = h * (10 * p) + (p * q + r)
  BY <1>1
<1>3. QED
  BY <1>1, <1>2 DEF q, r

(* The characters: as many as the first loop has turns and one, digits,    *)
(* and the first one is not zero unless it is the only one.                *)
LEMMA DigitsFacts ==
  ASSUME NEW m \in Nat, m <= INT_MAX + 1
  PROVE  /\ Digits(m) \in Seq(Int) /\ Len(Digits(m)) = Turns(m) + 1
         /\ \A k \in 1 .. Turns(m) + 1 : Digits(m)[k] \in Digit
         /\ Digits(m)[1] = 48 => m = 0 /\ Turns(m) = 0
<1> DEFINE top == Turns(m)
           D == Digits(m)
<1>1. PICK g : /\ Rests(g, m, top)
               /\ D = [k \in 1 .. top + 1 |-> 48 + (g[k - 1] \div Pow10[top + 1 - k])]
  BY DigitsUnfold
<1>2. top \in Nat /\ top <= INT_MAX + 1 /\ INT_MAX \in Nat /\ m < 10 * Pow10[top]
      /\ top <= m /\ (top > 0 => Pow10[top] <= m)
  BY TurnsFacts, ShellAssumption
<1> HIDE DEF D
<1>3. ASSUME NEW k \in 1 .. top + 1 PROVE D[k] \in Digit /\ D[k] \in Int
  <2>1. k - 1 \in Nat /\ k - 1 <= top /\ top - (k - 1) = top + 1 - k /\ top + 1 - k \in Nat
        /\ top + 1 - k <= INT_MAX + 1
    BY <1>2
  <2>2. g[k - 1] \in Nat /\ g[k - 1] < 10 * Pow10[top + 1 - k]
    BY <1>1, <2>1, RestBound
  <2> DEFINE p == Pow10[top + 1 - k]
             q == g[k - 1] \div p
             r == g[k - 1] % p
  <2>3. p \in Nat \ {0}
    BY <2>1, Pow10Facts
  <2>4. q \in Nat /\ r \in Nat /\ g[k - 1] = p * q + r
    BY <2>2, <2>3, DivMod
  <2>5. D[k] = 48 + q
    BY <1>1
  <2> HIDE DEF p, q, r
  <2>6. g[k - 1] < 10 * p
    BY <2>2 DEF p
  <2>7. q <= 9
    <3>1. ASSUME q >= 10 PROVE FALSE
      <4>1. p * q >= p * 10
        BY <2>3, <2>4, <3>1
      <4>2. QED
        BY <2>3, <2>4, <2>6, <4>1
    <3>2. QED
      BY <2>4, <3>1
  <2>8. QED
    BY <2>4, <2>5, <2>7 DEF Digit
<1>4. D \in Seq(Int) /\ Len(D) = top + 1
  <2>1. D \in [1 .. top + 1 -> Int]
    BY <1>1, <1>3
  <2>2. top + 1 \in Nat
    BY <1>2
  <2> HIDE DEF top
  <2>3. QED
    BY <2>1, <2>2
<1>5. ASSUME D[1] = 48 PROVE m = 0 /\ top = 0
  <2>1. 1 \in 1 .. top + 1 /\ 1 - 1 = 0 /\ top + 1 - 1 = top
    BY <1>2
  <2>2. g[0] = m
    BY <1>1 DEF Rests
  <2>3. D[1] = 48 + (m \div Pow10[top])
    BY <1>1, <2>1, <2>2
  <2>4. Pow10[top] \in Nat \ {0}
    BY <1>2, Pow10Facts
  <2> DEFINE p == Pow10[top]
             q == m \div p
             r == m % p
  <2>a. p \in Nat /\ q \in Nat /\ r \in Nat /\ r < p /\ m = p * q + r
    BY <2>4, DivMod
  <2>5. p \in Nat /\ q \in Nat /\ r \in Nat /\ r < p /\ m = p * q + r /\ q = 0
    <3>1. 48 + q = 48
      BY <1>5, <2>3
    <3> HIDE DEF p, q, r
    <3>2. QED
      BY <2>a, <3>1
  <2>6. m < p
    <3> HIDE DEF p, q, r
    <3>1. p * 0 = 0 /\ p * q = p * 0
      BY <2>5
    <3>2. QED
      BY <2>5, <3>1
  <2>7. top = 0
    BY <1>2, <2>4, <2>6
  <2>8. p = 1
    BY <2>7, Pow10Recursion
  <2>9. QED
    BY <2>6, <2>7, <2>8
<1>6. QED
  BY <1>3, <1>4, <1>5 DEF D

(* Read back from position o on, they are m.                               *)
LEMMA DigitsValue ==
  ASSUME NEW m \in Nat, m <= INT_MAX + 1, NEW o \in Nat, NEW u, u[o] = 0,
         \A k \in 1 .. Turns(m) + 1 : u[o + k] = 10 * u[o + k - 1] + (Digits(m)[k] - 48)
  PROVE  u[o + (Turns(m) + 1)] = m
<1> DEFINE top == Turns(m)
           D == Digits(m)
<1>1. PICK g : /\ Rests(g, m, top)
               /\ D = [k \in 1 .. top + 1 |-> 48 + (g[k - 1] \div Pow10[top + 1 - k])]
  BY DigitsUnfold
<1>2. top \in Nat /\ top <= INT_MAX + 1 /\ INT_MAX \in Nat
  BY TurnsFacts, ShellAssumption
<1> HIDE DEF D
<1>3. ASSUME NEW k \in 0 .. top
      PROVE  /\ Pow10[top - k] \in Nat \ {0} /\ g[k] \in Nat
             /\ u[o + (k + 1)] = 10 * u[o + k] + (g[k] \div Pow10[top - k])
             /\ g[k] \div Pow10[top - k] \in Nat
  <2>1. k + 1 \in 1 .. top + 1 /\ (k + 1) - 1 = k /\ top + 1 - (k + 1) = top - k
        /\ top - k \in Nat /\ top - k <= INT_MAX + 1 /\ o + (k + 1) - 1 = o + k
    BY <1>2
  <2>2. Pow10[top - k] \in Nat \ {0} /\ g[k] \in Nat
    BY <1>1, <2>1, Pow10Facts, RestBound
  <2>3. D[k + 1] = 48 + (g[k] \div Pow10[top - k])
    BY <1>1, <2>1
  <2>4. u[o + (k + 1)] = 10 * u[o + k] + (D[k + 1] - 48)
    BY <2>1 DEF D
  <2>5. g[k] \div Pow10[top - k] \in Nat
    BY <2>2, DivMod
  <2>6. (48 + (g[k] \div Pow10[top - k])) - 48 = g[k] \div Pow10[top - k]
    BY <2>5
  <2>7. QED
    BY <2>2, <2>3, <2>4, <2>5, <2>6
<1> DEFINE T == {k \in 0 .. top : u[o + k] \in Nat /\ u[o + k] * (10 * Pow10[top - k]) + g[k] = m}
<1>4. 0 \in T
  <2>1. g[0] = m /\ o + 0 = o /\ top - 0 = top /\ 0 \in 0 .. top /\ Pow10[top] \in Nat
    BY <1>1, <1>2, Pow10Facts DEF Rests
  <2>2. 0 * (10 * Pow10[top]) + m = m
    BY <2>1
  <2>3. QED
    BY <2>1, <2>2
<1>5. ASSUME NEW k \in 0 .. top - 1, k \in T PROVE k + 1 \in T
  <2>1. k \in 0 .. top /\ k + 1 \in 0 .. top /\ k + 1 \in 1 .. top /\ (k + 1) - 1 = k
        /\ top + 1 - (k + 1) = top - k /\ top - k > 0 /\ top - k \in Nat /\ top - k <= INT_MAX + 1
        /\ (top - k) - 1 = top - (k + 1)
    BY <1>2
  <2> DEFINE p == Pow10[top - k]
             h == u[o + k]
             a == g[k]
  <2>2. p \in Nat \ {0} /\ a \in Nat /\ u[o + (k + 1)] = 10 * h + (a \div p) /\ a \div p \in Nat
    BY <1>3, <2>1
  <2>3. h \in Nat /\ h * (10 * p) + a = m
    BY <1>5
  <2>4. g[k + 1] = a % p
    BY <1>1, <2>1 DEF Rests
  <2>5. p = 10 * Pow10[top - (k + 1)]
    BY <2>1, Pow10Facts
  <2> HIDE DEF p, h, a
  <2>6. (10 * h + (a \div p)) * p + (a % p) = m
    <3>1. h \in Nat /\ p \in Nat \ {0} /\ a \in Nat
      BY <2>2, <2>3
    <3>2. h * (10 * p) + a = (10 * h + (a \div p)) * p + (a % p)
      BY <3>1, HornerStep, ZenonT(60)
    <3>3. QED
      BY <2>3, <3>2, Zenon
  <2>7. 10 * h + (a \div p) \in Nat
    BY <2>2, <2>3
  <2>8. QED
    BY <2>1, <2>2, <2>4, <2>5, <2>6, <2>7
<1> HIDE DEF T
<1>6. 0 .. top \subseteq T
  BY <1>2, <1>4, <1>5, InductionUpTo
<1>7. top \in 0 .. top /\ top - top = 0
  BY <1>2
<1>8. u[o + top] \in Nat /\ u[o + top] * (10 * 1) + g[top] = m
  BY <1>6, <1>7, Pow10Recursion DEF T
<1>9. u[o + (top + 1)] = 10 * u[o + top] + (g[top] \div 1) /\ g[top] \in Nat
  BY <1>3, <1>7, Pow10Recursion
<1>10. g[top] \div 1 = g[top]
  BY <1>9
<1>11. QED
  BY <1>8, <1>9, <1>10

\* u is the recursive function in Value: what the digits from f on are, up to x.
Read(u, t, f, j) ==
  /\ u \in [0 .. j -> Int]
  /\ \A x \in 0 .. j : x < f => u[x] = 0
  /\ \A x \in f .. j : u[x] = 10 * u[x - 1] + (t[x] - 48)

LEMMA ValueUnfolds ==
  ASSUME NEW t, NEW i \in Nat \ {0}, NEW j \in Nat,
         \A x \in FirstDigit(t, i) .. j : t[x] \in Int
  PROVE  \E u : /\ Read(u, t, FirstDigit(t, i), j)
                /\ Value(t, i, j) = IF t[i] = 45 THEN -u[j] ELSE u[j]
<1> DEFINE f == FirstDigit(t, i)
           Body(v) == [x \in 0 .. j |-> IF x < f THEN 0 ELSE 10 * v[x - 1] + (t[x] - 48)]
           u == CHOOSE v : v = Body(v)
           step == [x \in 1 .. j |-> [s \in Int |-> IF x < f THEN 0 ELSE 10 * s + (t[x] - 48)]]
<1>1. f \in Nat \ {0}
  BY DEF FirstDigit
<1>2. Value(t, i, j) = IF t[i] = 45 THEN -u[j] ELSE u[j]
  BY DEF Value
<1>3. \A x \in f .. j : t[x] \in Int
  OBVIOUS
<1> HIDE DEF f
<1>4. PICK v : Recursive(v, j, Int, 0, step)
  <2>1. ASSUME NEW x \in 1 .. j, NEW s \in Int
        PROVE  (IF x < f THEN 0 ELSE 10 * s + (t[x] - 48)) \in Int
    <3>1. CASE x < f
      BY <3>1
    <3>2. CASE ~(x < f)
      <4>1. x \in f .. j
        BY <1>1, <3>2
      <4>2. t[x] \in Int
        BY <1>3, <4>1
      <4>3. QED
        BY <3>2, <4>2
    <3>3. QED
      BY <3>1, <3>2
  <2>2. step \in StepFunctions(j, Int)
    BY <2>1 DEF StepFunctions
  <2> HIDE DEF step
  <2>3. 0 \in Int
    OBVIOUS
  <2>4. QED
    BY <2>2, <2>3, RecursionUpTo, Zenon
<1>5. v = Body(v)
  <2>1. ASSUME NEW x \in 0 .. j PROVE v[x] = Body(v)[x]
    <3>1. CASE x = 0
      <4>1. x < f /\ v[0] = 0
        BY <1>1, <1>4, <3>1 DEF Recursive
      <4>2. QED
        BY <3>1, <4>1
    <3>2. CASE x # 0
      <4>1. x \in 1 .. j /\ x - 1 \in 0 .. j
        BY <3>2
      <4>2. v[x] = step[x][v[x - 1]] /\ v[x - 1] \in Int
        BY <1>4, <4>1 DEF Recursive
      <4>3. step[x][v[x - 1]] = IF x < f THEN 0 ELSE 10 * v[x - 1] + (t[x] - 48)
        BY <4>1, <4>2
      <4>4. QED
        BY <4>2, <4>3, Zenon
    <3>3. QED
      BY <3>1, <3>2
  <2>2. v = [x \in 0 .. j |-> v[x]]
    BY <1>4 DEF Recursive
  <2>3. QED
    BY <2>1, <2>2
<1>6. u = Body(u)
  <2> HIDE DEF Body
  <2>1. QED
    BY <1>5, Zenon
<1> HIDE DEF u
<1>7. ASSUME NEW x \in 0 .. j
      PROVE  (x < f => u[x] = 0) /\ (~(x < f) => u[x] = 10 * u[x - 1] + (t[x] - 48))
  <2>1. Body(u)[x] = IF x < f THEN 0 ELSE 10 * u[x - 1] + (t[x] - 48)
    OBVIOUS
  <2>2. u[x] = IF x < f THEN 0 ELSE 10 * u[x - 1] + (t[x] - 48)
    <3> HIDE DEF Body
    <3>1. QED
      BY <1>6, <2>1, Zenon
  <2>3. QED
    BY <2>2, Zenon
<1>8. \A x \in 0 .. j : u[x] \in Int
  <2> DEFINE T == {x \in 0 .. j : u[x] \in Int}
  <2>1. 0 \in T
    BY <1>1, <1>7
  <2>2. ASSUME NEW x \in 0 .. j - 1, x \in T PROVE x + 1 \in T
    <3>1. x + 1 \in 0 .. j /\ (x + 1) - 1 = x /\ u[x] \in Int
      BY <2>2
    <3>2. CASE x + 1 < f
      BY <1>7, <3>1, <3>2
    <3>3. CASE ~(x + 1 < f)
      <4>1. x + 1 \in f .. j
        BY <1>1, <3>1, <3>3
      <4>2. t[x + 1] \in Int
        BY <1>3, <4>1
      <4>3. u[x + 1] = 10 * u[x] + (t[x + 1] - 48)
        BY <1>7, <3>1, <3>3
      <4>4. QED
        BY <3>1, <4>2, <4>3
    <3>4. QED
      BY <3>2, <3>3
  <2> HIDE DEF T
  <2>3. 0 .. j \subseteq T
    BY <2>1, <2>2, InductionUpTo
  <2>4. QED
    BY <2>3 DEF T
<1>9. Read(u, t, f, j)
  <2>1. u = [x \in 0 .. j |-> u[x]]
    BY <1>6
  <2>2. u \in [0 .. j -> Int]
    BY <1>8, <2>1
  <2>3. ASSUME NEW x \in f .. j PROVE u[x] = 10 * u[x - 1] + (t[x] - 48)
    <3>1. x \in 0 .. j /\ ~(x < f)
      BY <1>1
    <3>2. QED
      BY <1>7, <3>1
  <2>4. QED
    BY <1>7, <2>2, <2>3 DEF Read
<1>10. QED
  BY <1>2, <1>9 DEF f

(* printf("%d", n) writes n.                                               *)
LEMMA DecimalSpells ==
  ASSUME NEW n \in Ints
  PROVE  Spells(Decimal(n), n)
<1> DEFINE m == IF n < 0 THEN -n ELSE n
           o == IF n < 0 THEN 1 ELSE 0
           D == Digits(m)
           top == Turns(m)
           text == Decimal(n)
           L == o + (top + 1)
<1>1. m \in Nat /\ m <= INT_MAX + 1 /\ o \in Nat /\ n \in Int /\ n = IF n < 0 THEN -m ELSE m
  BY ShellAssumption DEF Ints, INT_MIN
<1>2. text = IF n < 0 THEN <<45>> \o D ELSE D
  BY DEF Decimal
<1>3. (n < 0 => m > 0 /\ o = 1) /\ (~(n < 0) => o = 0)
  BY <1>1
<1> HIDE DEF m, o, text
<1>4. /\ D \in Seq(Int) /\ Len(D) = top + 1
      /\ \A k \in 1 .. top + 1 : D[k] \in Digit
      /\ D[1] = 48 => m = 0 /\ top = 0
  BY <1>1, DigitsFacts
<1>5. top \in Nat
  BY <1>1, TurnsFacts
<1> HIDE DEF D, top
<1>6. /\ Len(text) = L
      /\ \A k \in 1 .. top + 1 : text[o + k] = D[k]
      /\ n < 0 => text[1] = 45
  <2>1. CASE n < 0
    <3>1. text = <<45>> \o D /\ o = 1 /\ <<45>> \in Seq(Int) /\ Len(<<45>>) = 1 /\ <<45>>[1] = 45
      BY <1>2, <1>3, <2>1
    <3>2. /\ Len(<<45>> \o D) = Len(<<45>>) + Len(D)
          /\ \A k \in 1 .. Len(<<45>>) + Len(D) :
               (<<45>> \o D)[k] = IF k <= Len(<<45>>) THEN <<45>>[k] ELSE D[k - Len(<<45>>)]
      BY <1>4, <3>1, ConcatProperties
    <3>3. \A k \in 1 .. 1 + (top + 1) : text[k] = IF k <= 1 THEN <<45>>[k] ELSE D[k - 1]
      BY <1>4, <3>1, <3>2, Zenon
    <3>4. text[1] = 45
      BY <1>5, <3>1, <3>3
    <3>5. ASSUME NEW k \in 1 .. top + 1 PROVE text[1 + k] = D[k]
      <4>1. 1 + k \in 1 .. 1 + (top + 1) /\ ~(1 + k <= 1) /\ (1 + k) - 1 = k
        BY <1>5
      <4>2. QED
        BY <3>3, <4>1, Zenon
    <3>6. Len(text) = 1 + (top + 1)
      BY <1>4, <3>1, <3>2, Zenon
    <3>7. QED
      BY <3>1, <3>4, <3>5, <3>6
  <2>2. CASE ~(n < 0)
    <3>1. text = D /\ o = 0
      BY <1>2, <1>3, <2>2
    <3>2. \A k \in 1 .. top + 1 : 0 + k = k
      BY <1>5
    <3>3. L = top + 1
      BY <1>5, <3>1
    <3>4. QED
      BY <1>4, <2>2, <3>1, <3>2, <3>3, Zenon
  <2>3. QED
    BY <2>1, <2>2
<1>7. \A k \in 1 .. top + 1 : text[o + k] \in Digit
  BY <1>4, <1>6
<1>8. (text[1] = 45 <=> n < 0) /\ FirstDigit(text, 1) = o + 1
  <2>1. CASE n < 0
    BY <1>3, <1>6, <2>1 DEF FirstDigit
  <2>2. CASE ~(n < 0)
    <3>1. o = 0 /\ 1 \in 1 .. top + 1 /\ 0 + 1 = 1
      BY <1>3, <1>5, <2>2
    <3>2. text[1] \in Digit
      BY <1>7, <3>1
    <3>3. text[1] # 45
      BY <3>2 DEF Digit
    <3>4. QED
      BY <2>2, <3>1, <3>3 DEF FirstDigit
  <2>3. QED
    BY <2>1, <2>2
<1>9. L \in Nat /\ 1 <= L /\ o + 1 <= L
  BY <1>1, <1>5
<1>10. ASSUME NEW x \in o + 1 .. L
       PROVE  /\ text[x] \in Digit /\ text[x] \in Int
              /\ x - o \in 1 .. top + 1 /\ o + (x - o) = x
  <2>1. x - o \in 1 .. top + 1 /\ o + (x - o) = x
    BY <1>1, <1>5
  <2>2. text[x] \in Digit
    BY <1>7, <2>1
  <2>3. QED
    BY <2>1, <2>2 DEF Digit
<1>11. IsNumber(text, 1, L)
  BY <1>8, <1>9, <1>10 DEF IsNumber
<1>12. PICK u : Read(u, text, o + 1, L) /\ Value(text, 1, L) = IF text[1] = 45 THEN -u[L] ELSE u[L]
  <2>1. \A x \in FirstDigit(text, 1) .. L : text[x] \in Int
    BY <1>8, <1>10
  <2>2. \E u : Read(u, text, FirstDigit(text, 1), L)
               /\ Value(text, 1, L) = IF text[1] = 45 THEN -u[L] ELSE u[L]
    <3> HIDE DEF L
    <3>1. QED
      BY <1>9, <2>1, ValueUnfolds
  <2>3. QED
    BY <1>8, <2>2
<1>13. u[L] = m
  <2>1. u[o] = 0
    <3>1. o \in 0 .. L /\ o < o + 1
      BY <1>1, <1>5
    <3>2. QED
      BY <1>12, <3>1 DEF Read
  <2>2. ASSUME NEW k \in 1 .. top + 1 PROVE u[o + k] = 10 * u[o + k - 1] + (D[k] - 48)
    <3> DEFINE y == o + k
    <3>1. y \in o + 1 .. L
      BY <1>1, <1>5
    <3>2. text[y] = D[k] /\ y - 1 = o + k - 1
      BY <1>1, <1>5, <1>6
    <3>3. \A x \in o + 1 .. L : u[x] = 10 * u[x - 1] + (text[x] - 48)
      BY <1>12 DEF Read
    <3> HIDE DEF y
    <3>4. u[y] = 10 * u[y - 1] + (text[y] - 48)
      BY <3>1, <3>3, Zenon
    <3>5. QED
      BY <3>2, <3>4 DEF y
  <2>3. QED
    BY <1>1, <2>1, <2>2, DigitsValue DEF D, top
<1>14. Value(text, 1, L) = n
  BY <1>1, <1>8, <1>12, <1>13
<1>15. text[o + 1] = 48 => n = 0 /\ L = 1
  <2>1. text[o + 1] = D[1]
    BY <1>5, <1>6
  <2>2. ASSUME D[1] = 48 PROVE n = 0 /\ L = 1
    <3>1. m = 0 /\ top = 0 /\ ~(n < 0)
      BY <1>3, <1>4, <2>2
    <3>2. QED
      BY <1>1, <1>3, <3>1
  <2>3. QED
    BY <2>1, <2>2
<1>16. QED
  BY <1>6, <1>8, <1>11, <1>14, <1>15 DEF Spells, text

-----------------------------------------------------------------------------
(* What the calculator reads.                                              *)

LEMMA DigitsApart ==
  ASSUME NEW c \in Digit
  PROVE  c \in Int /\ c # Space /\ c # 45
  BY DEF Digit, Space

LEMMA OpsApart ==
  ASSUME NEW c \in Ops
  PROVE  ~(c \in Digit) /\ c # Space
  BY DEF Ops, Digit, Space

LEMMA SkipTo ==
  ASSUME NEW t \in Seq(Int), NEW k \in Nat, NEW e \in Nat, k <= e, e <= Len(t) + 1, NEW S,
         \A j \in k .. e - 1 : At(t, j) \in S, At(t, e) \notin S
  PROVE  Skip(t, k, S) = e
<1> DEFINE R == {j \in k .. Len(t) + 1 : At(t, j) \notin S}
           x == Min(R)
<1>1. Len(t) \in Nat
  BY LenProperties
<1>2. e \in R
  BY <1>1
<1>3. ASSUME NEW y \in R PROVE y \in Nat /\ e <= y
  <2>1. y \in k .. Len(t) + 1 /\ At(t, y) \notin S
    OBVIOUS
  <2>2. ~(y \in k .. e - 1)
    BY <2>1
  <2>3. QED
    BY <1>1, <2>1, <2>2
<1> HIDE DEF R
<1>4. x \in R /\ \A y \in R : x <= y
  <2>1. \E z \in R : \A y \in R : z <= y
    BY <1>2, <1>3
  <2>2. QED
    BY <2>1 DEF Min
<1> HIDE DEF x
<1>5. x = e
  BY <1>2, <1>3, <1>4
<1>6. QED
  BY <1>5 DEF x, R, Skip

\* g is the recursive function in Number.
Parsed(g, t, first, j) ==
  /\ \A x \in 0 .. j : x < first => g[x] = 0
  /\ \A x \in first .. j : g[x] = Wrap(g[x - 1] * 10 + (At(t, x) - 48))

LEMMA WrapType ==
  ASSUME NEW n \in Int
  PROVE  Wrap(n) \in Int
<1>1. INT_MIN \in Int /\ 2 * (INT_MAX + 1) \in Nat \ {0}
  BY ShellAssumption DEF INT_MIN
<1> DEFINE d == 2 * (INT_MAX + 1)
           a == n - INT_MIN
<1>2. a \in Int /\ d \in Nat \ {0}
  BY <1>1
<1>3. Wrap(n) = (a % d) + INT_MIN
  BY DEF Wrap
<1> HIDE DEF a, d
<1>4. a % d \in Int
  BY <1>2
<1>5. QED
  BY <1>1, <1>3, <1>4

LEMMA NumberUnfolds ==
  ASSUME NEW t, NEW k \in Nat \ {0}, NEW first, NEW j \in Nat,
         first = IF At(t, k) = 45 THEN k + 1 ELSE k,
         Skip(t, first, Digit) = j + 1,
         \A x \in first .. j : At(t, x) \in Int
  PROVE  \E g : /\ Parsed(g, t, first, j)
                /\ Number(t, k) = [value |-> IF first > k THEN Wrap(-g[j]) ELSE g[j], end |-> j + 1]
<1> DEFINE Body(v) == [x \in 0 .. j |->
                         IF x < first THEN 0 ELSE Wrap(v[x - 1] * 10 + (At(t, x) - 48))]
           g == CHOOSE v : v = Body(v)
           step == [x \in 1 .. j |-> [s \in Int |->
                      IF x < first THEN 0 ELSE Wrap(s * 10 + (At(t, x) - 48))]]
<1>1. first \in Nat \ {0} /\ (j + 1) - 1 = j
  OBVIOUS
<1>2. Number(t, k) = [value |-> IF first > k THEN Wrap(-g[j]) ELSE g[j], end |-> j + 1]
  <2> DEFINE Num(f, e) == CHOOSE v : v = [x \in 0 .. e |->
                            IF x < f THEN 0 ELSE Wrap(v[x - 1] * 10 + (At(t, x) - 48))]
             Result(f, e) == [value |-> IF f > k THEN Wrap(-Num(f, e - 1)[e - 1])
                                        ELSE Num(f, e - 1)[e - 1],
                              end |-> e]
  <2>1. /\ Number(t, k) = Result(IF At(t, k) = 45 THEN k + 1 ELSE k,
                                Skip(t, IF At(t, k) = 45 THEN k + 1 ELSE k, Digit))
        /\ g = Num(first, j)
    BY Zenon DEF Number
  <2> HIDE DEF g, Num
  <2>2. Result(first, j + 1) = [value |-> IF first > k THEN Wrap(-g[j]) ELSE g[j], end |-> j + 1]
    BY <1>1, <2>1
  <2> HIDE DEF Result
  <2>3. QED
    BY <2>1, <2>2, Zenon
<1>4. PICK v : Recursive(v, j, Int, 0, step)
  <2>1. ASSUME NEW x \in 1 .. j, NEW s \in Int
        PROVE  (IF x < first THEN 0 ELSE Wrap(s * 10 + (At(t, x) - 48))) \in Int
    <3>1. CASE x < first
      BY <3>1
    <3>2. CASE ~(x < first)
      <4>1. x \in first .. j
        BY <1>1, <3>2
      <4>2. s * 10 + (At(t, x) - 48) \in Int
        BY <4>1
      <4>3. Wrap(s * 10 + (At(t, x) - 48)) \in Int
        BY <4>2, WrapType
      <4>4. QED
        BY <3>2, <4>3
    <3>3. QED
      BY <3>1, <3>2
  <2>2. step \in StepFunctions(j, Int)
    BY <2>1 DEF StepFunctions
  <2> HIDE DEF step
  <2>3. 0 \in Int
    OBVIOUS
  <2>4. QED
    BY <2>2, <2>3, RecursionUpTo, Zenon
<1>5. v = Body(v)
  <2>1. ASSUME NEW x \in 0 .. j PROVE v[x] = Body(v)[x]
    <3>1. CASE x = 0
      <4>1. x < first /\ v[0] = 0
        BY <1>1, <1>4, <3>1 DEF Recursive
      <4>2. QED
        BY <3>1, <4>1
    <3>2. CASE x # 0
      <4>1. x \in 1 .. j /\ x - 1 \in 0 .. j
        BY <3>2
      <4>2. v[x] = step[x][v[x - 1]] /\ v[x - 1] \in Int
        BY <1>4, <4>1 DEF Recursive
      <4>3. step[x][v[x - 1]] = IF x < first THEN 0 ELSE Wrap(v[x - 1] * 10 + (At(t, x) - 48))
        BY <4>1, <4>2
      <4>4. QED
        BY <4>2, <4>3, Zenon
    <3>3. QED
      BY <3>1, <3>2
  <2>2. v = [x \in 0 .. j |-> v[x]]
    BY <1>4 DEF Recursive
  <2>3. QED
    BY <2>1, <2>2, ZenonT(60)
<1>6. g = Body(g)
  <2> HIDE DEF Body
  <2>1. QED
    BY <1>5, Zenon
<1> HIDE DEF g
<1>7. ASSUME NEW x \in 0 .. j
      PROVE  /\ x < first => g[x] = 0
             /\ ~(x < first) => g[x] = Wrap(g[x - 1] * 10 + (At(t, x) - 48))
  <2>1. Body(g)[x] = IF x < first THEN 0 ELSE Wrap(g[x - 1] * 10 + (At(t, x) - 48))
    OBVIOUS
  <2>2. g[x] = IF x < first THEN 0 ELSE Wrap(g[x - 1] * 10 + (At(t, x) - 48))
    <3> HIDE DEF Body
    <3>1. QED
      BY <1>6, <2>1, Zenon
  <2>3. QED
    BY <2>2, Zenon
<1>8. Parsed(g, t, first, j)
  <2>1. ASSUME NEW x \in first .. j PROVE g[x] = Wrap(g[x - 1] * 10 + (At(t, x) - 48))
    <3>1. x \in 0 .. j /\ ~(x < first)
      BY <1>1
    <3>2. QED
      BY <1>7, <3>1
  <2>2. QED
    BY <1>7, <2>1 DEF Parsed
<1>9. QED
  BY <1>2, <1>8

(* The digits of an int, sign aside: no prefix of them overflows.          *)
LEMMA PrefixBound ==
  ASSUME NEW t, NEW f \in Nat \ {0}, NEW j \in Nat, f <= j, NEW u, Read(u, t, f, j),
         \A x \in f .. j : t[x] \in Digit
  PROVE  \A x \in 0 .. j : u[x] \in Nat /\ u[x] <= u[j] /\ (x < j => 10 * u[x] <= u[j])
<1>1. /\ \A x \in 0 .. j : u[x] \in Int /\ (x < f => u[x] = 0)
      /\ \A x \in f .. j : u[x] = 10 * u[x - 1] + (t[x] - 48)
  BY DEF Read
<1>2. ASSUME NEW x \in 0 .. j - 1
      PROVE  (u[x] \in Nat => u[x + 1] \in Nat /\ u[x + 1] >= 10 * u[x]) /\ x + 1 \in 0 .. j
             /\ x \in 0 .. j
  <2>0. x + 1 \in 0 .. j /\ x \in 0 .. j
    OBVIOUS
  <2>1. CASE x + 1 < f
    <3>1. x < f
      BY <2>1
    <3>2. u[x] = 0 /\ u[x + 1] = 0
      BY <1>1, <2>0, <2>1, <3>1
    <3>3. QED
      BY <2>0, <3>2
  <2>2. CASE ~(x + 1 < f)
    <3>1. x + 1 \in f .. j /\ (x + 1) - 1 = x
      BY <2>2
    <3>2. u[x + 1] = 10 * u[x] + (t[x + 1] - 48)
      BY <1>1, <3>1
    <3>3. t[x + 1] - 48 \in Nat
      BY <3>1 DEF Digit
    <3>4. QED
      BY <2>0, <3>2, <3>3
  <2>3. QED
    BY <2>1, <2>2
<1>3. \A x \in 0 .. j : u[x] \in Nat
  <2> DEFINE T == {x \in 0 .. j : u[x] \in Nat}
  <2>1. 0 \in T
    BY <1>1
  <2>2. ASSUME NEW x \in 0 .. j - 1, x \in T PROVE x + 1 \in T
    BY <1>2, <2>2
  <2> HIDE DEF T
  <2>3. 0 .. j \subseteq T
    BY <2>1, <2>2, InductionUpTo
  <2>4. QED
    BY <2>3 DEF T
<1>4. \A x \in 0 .. j : u[x] <= u[j]
  <2> DEFINE T == {k \in 0 .. j : u[j - k] <= u[j]}
  <2>1. 0 \in T
    <3>1. j - 0 = j /\ j \in 0 .. j
      OBVIOUS
    <3>2. u[j] <= u[j]
      BY <1>3, <3>1
    <3>3. QED
      BY <3>1, <3>2
  <2>2. ASSUME NEW k \in 0 .. j - 1, k \in T PROVE k + 1 \in T
    <3> DEFINE x == j - (k + 1)
    <3>1. x \in 0 .. j - 1 /\ x + 1 = j - k /\ k + 1 \in 0 .. j /\ j \in 0 .. j
      OBVIOUS
    <3>2. u[x + 1] <= u[j]
      BY <2>2, <3>1
    <3> HIDE DEF x
    <3>3. u[x] \in Nat /\ u[x + 1] \in Nat /\ u[x + 1] >= 10 * u[x] /\ u[j] \in Nat
      BY <1>2, <1>3, <3>1
    <3>4. u[x] <= u[j]
      BY <3>2, <3>3
    <3>5. QED
      BY <3>1, <3>4 DEF x
  <2> HIDE DEF T
  <2>3. 0 .. j \subseteq T
    BY <2>1, <2>2, InductionUpTo
  <2>4. ASSUME NEW x \in 0 .. j PROVE u[x] <= u[j]
    <3>1. j - x \in 0 .. j /\ j - (j - x) = x
      OBVIOUS
    <3>2. QED
      BY <2>3, <3>1 DEF T
  <2>5. QED
    BY <2>4
<1>5. ASSUME NEW x \in 0 .. j, x < j PROVE 10 * u[x] <= u[j]
  <2>1. x \in 0 .. j - 1 /\ j \in 0 .. j
    BY <1>5
  <2>2. u[x] \in Nat /\ u[x + 1] \in Nat /\ u[x + 1] >= 10 * u[x] /\ u[x + 1] <= u[j] /\ u[j] \in Nat
    BY <1>2, <1>3, <1>4, <2>1
  <2>3. QED
    BY <2>2
<1>6. QED
  BY <1>3, <1>4, <1>5

(* A number of the line that an int can hold is read as what it is, up to  *)
(* its last digit.                                                         *)
LEMMA ParsesNumber ==
  ASSUME NEW t \in Seq(Int), NEW i \in Nat \ {0}, NEW j \in Nat, j <= Len(t),
         IsNumber(t, i, j), Value(t, i, j) \in Ints, At(t, j + 1) \notin Digit
  PROVE  Number(t, i).value = Value(t, i, j) /\ Number(t, i).end = j + 1
<1> DEFINE f == FirstDigit(t, i)
<1>1. i <= j /\ f <= j /\ \A x \in f .. j : t[x] \in Digit
  BY DEF IsNumber
<1>2. f \in Nat \ {0} /\ i <= f /\ (f > i <=> t[i] = 45) /\ Len(t) \in Nat
      /\ f = IF t[i] = 45 THEN i + 1 ELSE i
  <2>1. Len(t) \in Nat
    BY LenProperties
  <2>2. QED
    BY <2>1 DEF FirstDigit
<1> HIDE DEF f
<1>3. At(t, i) = t[i] /\ \A x \in f .. j : At(t, x) = t[x] /\ At(t, x) \in Digit /\ At(t, x) \in Int
                                          /\ t[x] \in Int
  <2>1. At(t, i) = t[i]
    BY <1>1, <1>2 DEF At
  <2>2. ASSUME NEW x \in f .. j PROVE At(t, x) = t[x] /\ t[x] \in Digit /\ t[x] \in Int
    <3>1. x <= Len(t)
      BY <1>2
    <3>2. QED
      BY <1>1, <3>1, SMTT(30) DEF At, Digit
  <2>3. QED
    BY <2>1, <2>2
<1>4. Skip(t, f, Digit) = j + 1
  <2>1. j + 1 \in Nat /\ f <= j + 1 /\ j + 1 <= Len(t) + 1 /\ f \in Nat
    BY <1>1, <1>2
  <2>2. \A x \in f .. (j + 1) - 1 : At(t, x) \in Digit
    BY <1>1, <1>3
  <2>3. QED
    BY <2>1, <2>2, SkipTo
<1>5. PICK u : Read(u, t, f, j) /\ Value(t, i, j) = IF t[i] = 45 THEN -u[j] ELSE u[j]
  <2>1. \A x \in FirstDigit(t, i) .. j : t[x] \in Int
    BY <1>3 DEF f
  <2>2. QED
    BY <2>1, ValueUnfolds DEF f
<1>6. PICK g : /\ Parsed(g, t, f, j)
               /\ Number(t, i) = [value |-> IF f > i THEN Wrap(-g[j]) ELSE g[j], end |-> j + 1]
  <2>1. f = IF At(t, i) = 45 THEN i + 1 ELSE i
    BY <1>2, <1>3
  <2>2. \A x \in f .. j : At(t, x) \in Int
    BY <1>3
  <2>3. QED
    BY <1>4, <2>1, <2>2, NumberUnfolds, SMTT(30)
<1>7. \A x \in 0 .. j : u[x] \in Nat /\ u[x] <= u[j] /\ (x < j => 10 * u[x] <= u[j])
  BY <1>1, <1>2, <1>5, PrefixBound, ZenonT(60)
<1>8. u[j] \in Nat /\ u[j] <= INT_MAX + 1 /\ INT_MAX \in Nat \ {0} /\ j \in 0 .. j
      /\ (t[i] # 45 => u[j] <= INT_MAX)
  <2>1. INT_MAX \in Nat \ {0} /\ u[j] \in Nat
    BY <1>7, ShellAssumption
  <2>2. QED
    BY <1>5, <2>1 DEF Ints, INT_MIN
<1>9. ASSUME NEW x \in 0 .. j, u[x] <= INT_MAX PROVE Wrap(u[x]) = u[x]
  <2>1. u[x] \in Ints
    BY <1>7, <1>8, <1>9, SMTT(30) DEF Ints, INT_MIN
  <2>2. QED
    BY <2>1, WrapInts
<1>10. \A x \in 0 .. j : g[x] = Wrap(u[x])
  <2> DEFINE T == {x \in 0 .. j : g[x] = Wrap(u[x])}
  <2>0. ASSUME NEW x \in 0 .. j, x < f PROVE x \in T
    <3>1. u[x] = 0 /\ g[x] = 0
      BY <1>5, <1>6, <2>0 DEF Read, Parsed
    <3>a. u[x] <= INT_MAX
      BY <1>8, <3>1
    <3>2. Wrap(u[x]) = 0
      BY <1>9, <3>1, <3>a
    <3>3. QED
      BY <3>1, <3>2
  <2>1. 0 \in T
    BY <1>2, <2>0
  <2>2. ASSUME NEW x \in 0 .. j - 1, x \in T PROVE x + 1 \in T
    <3>1. x \in 0 .. j /\ x + 1 \in 0 .. j /\ x < j
      OBVIOUS
    <3>2. CASE x + 1 < f
      BY <2>0, <3>1, <3>2
    <3>3. CASE ~(x + 1 < f)
      <4>1. x + 1 \in f .. j /\ (x + 1) - 1 = x
        BY <1>2, <3>3
      <4>2. u[x] \in Nat /\ u[x] <= INT_MAX
        <5>1. u[x] \in Nat /\ 10 * u[x] <= u[j]
          BY <1>7, <3>1
        <5>2. QED
          BY <1>8, <5>1, SMTT(30)
      <4>3. g[x] = u[x]
        BY <1>9, <2>2, <3>1, <4>2
      <4>4. u[x + 1] = 10 * u[x] + (t[x + 1] - 48)
        BY <1>5, <4>1 DEF Read
      <4>5. g[x + 1] = Wrap(g[x] * 10 + (At(t, x + 1) - 48))
        BY <1>6, <4>1 DEF Parsed
      <4>6. At(t, x + 1) = t[x + 1] /\ u[x] * 10 = 10 * u[x]
        BY <1>3, <4>1, <4>2
      <4>7. QED
        BY <3>1, <4>3, <4>4, <4>5, <4>6, Zenon
    <3>4. QED
      BY <3>2, <3>3
  <2> HIDE DEF T
  <2>3. 0 .. j \subseteq T
    BY <2>1, <2>2, InductionUpTo
  <2>4. QED
    BY <2>3 DEF T
<1>11. Number(t, i).value = (IF f > i THEN Wrap(-g[j]) ELSE g[j]) /\ Number(t, i).end = j + 1
  BY <1>6
<1>12. g[j] = Wrap(u[j])
  BY <1>8, <1>10
<1>13. CASE u[j] <= INT_MAX
  <2>1. g[j] = u[j]
    BY <1>8, <1>9, <1>12, <1>13
  <2>2. -u[j] \in Ints
    BY <1>8, <1>13 DEF Ints, INT_MIN
  <2>3. Wrap(-u[j]) = -u[j]
    BY <2>2, WrapInts
  <2>4. QED
    BY <1>2, <1>5, <1>11, <2>1, <2>3, ZenonT(60)
<1>14. CASE u[j] = INT_MAX + 1
  <2>1. t[i] = 45 /\ f > i
    BY <1>2, <1>8, <1>14
  <2>2. g[j] = INT_MIN
    BY <1>12, <1>14, WrapMagnitude, Zenon
  <2>3. -INT_MIN = INT_MAX + 1 /\ -u[j] = INT_MIN
    BY <1>8, <1>14 DEF INT_MIN
  <2>4. Wrap(-g[j]) = INT_MIN
    BY <2>2, <2>3, WrapMagnitude, Zenon
  <2>5. QED
    BY <1>5, <1>11, <2>1, <2>3, <2>4, ZenonT(60)
<1>15. QED
  BY <1>8, <1>13, <1>14

(* Either operand, when neither a digit nor a space follows.               *)
LEMMA ParsesOperand ==
  ASSUME NEW t \in Seq(Int), NEW i \in Nat \ {0}, NEW j \in Nat, j <= Len(t),
         NEW a \in Operand(t, i, j), ~(At(t, j + 1) \in Digit), At(t, j + 1) # Space
  PROVE  /\ a \in Ints
         /\ Number(t, Skip(t, i, {Space})).value = a
         /\ Skip(t, Number(t, Skip(t, i, {Space})).end, {Space}) = j + 1
<1>0. Len(t) \in Nat
  BY LenProperties
<1>1. a \in Ints
  BY DEF Operand
<1>2. PICK x \in i .. j : a \in {Value(t, x, y) : y \in {y \in x .. j : Padded(t, i, j, x, y)}}
  BY DEF Operand
<1>3. PICK y \in x .. j : Padded(t, i, j, x, y) /\ a = Value(t, x, y)
  BY <1>2
<1>4. x \in Nat \ {0} /\ y \in Nat /\ x <= y /\ y <= j /\ i <= x /\ y <= Len(t)
  BY <1>0, <1>2, <1>3
<1>5. IsNumber(t, x, y) /\ \A z \in (i .. x - 1) \cup (y + 1 .. j) : t[z] = Space
  BY <1>3 DEF Padded
<1>6. ASSUME NEW z \in Int, z <= j PROVE At(t, z) = t[z]
  BY <1>0, <1>6 DEF At
<1>7. At(t, x) # Space
  <2>1. At(t, x) = t[x]
    BY <1>4, <1>6
  <2>2. CASE t[x] = 45
    BY <2>1, <2>2 DEF Space
  <2>3. CASE t[x] # 45
    <3>1. FirstDigit(t, x) = x /\ x \in x .. y
      BY <1>4, <2>3 DEF FirstDigit
    <3>2. t[x] \in Digit
      BY <1>5, <3>1 DEF IsNumber
    <3>3. t[x] # Space
      BY <3>2, DigitsApart
    <3>4. QED
      BY <2>1, <3>3
  <2>4. QED
    BY <2>2, <2>3
<1>8. Skip(t, i, {Space}) = x
  <2>1. ASSUME NEW z \in i .. x - 1 PROVE At(t, z) \in {Space}
    <3>1. z \in Int /\ z <= j
      BY <1>4
    <3>2. QED
      BY <1>5, <1>6, <3>1
  <2>2. i \in Nat /\ i <= x /\ x \in Nat /\ x <= Len(t) + 1 /\ At(t, x) \notin {Space}
    BY <1>0, <1>4, <1>7
  <2>3. QED
    BY <2>1, <2>2, SkipTo
<1>9. At(t, y + 1) \notin Digit
  <2>1. CASE y = j
    BY <2>1
  <2>2. CASE y # j
    <3>1. y + 1 \in y + 1 .. j /\ y + 1 \in Int /\ y + 1 <= j
      BY <1>4, <2>2
    <3>2. At(t, y + 1) = Space
      BY <1>5, <1>6, <3>1
    <3>3. QED
      BY <3>2, SMTT(30) DEF Digit, Space
  <2>3. QED
    BY <2>1, <2>2
<1>10. Number(t, x).value = a /\ Number(t, x).end = y + 1
  <2>1. Value(t, x, y) \in Ints
    BY <1>1, <1>3
  <2>2. QED
    BY <1>3, <1>4, <1>5, <1>9, <2>1, ParsesNumber
<1>11. Skip(t, y + 1, {Space}) = j + 1
  <2>1. ASSUME NEW z \in y + 1 .. (j + 1) - 1 PROVE At(t, z) \in {Space}
    <3>1. z \in Int /\ z <= j /\ z \in y + 1 .. j
      BY <1>4
    <3>2. QED
      BY <1>5, <1>6, <3>1
  <2>2. y + 1 \in Nat /\ y + 1 <= j + 1 /\ j + 1 \in Nat /\ j + 1 <= Len(t) + 1
        /\ At(t, j + 1) \notin {Space}
    BY <1>0, <1>4
  <2>3. QED
    BY <2>1, <2>2, SkipTo
<1>12. QED
  BY <1>1, <1>8, <1>10, <1>11

LEMMA QuotientCorrect ==
  ASSUME NEW a \in Ints, NEW b \in Ints, b # 0, ~(a = INT_MIN /\ b = -1)
  PROVE  Quotient(a, b) \in Ints /\ IsQuotient(Quotient(a, b), a, b)
<1> DEFINE m == Abs(a)
           d == Abs(b)
           q == m \div d
           r == m % d
<1>1. INT_MAX \in Nat /\ a \in Int /\ b \in Int /\ -INT_MAX - 1 <= a /\ a <= INT_MAX
      /\ -INT_MAX - 1 <= b /\ b <= INT_MAX
  BY ShellAssumption DEF Ints, INT_MIN
<1>2. m \in Nat /\ d \in Nat \ {0} /\ m <= INT_MAX + 1
      /\ (a < 0 => a = -m) /\ (~(a < 0) => a = m) /\ (b < 0 => b = -d) /\ (~(b < 0) => b = d)
  BY <1>1 DEF Abs
<1>3. q \in Nat /\ r \in Nat /\ r < d /\ m = d * q + r
  <2> HIDE DEF m, d
  <2>1. QED
    BY <1>2, DivMod
<1>4. Quotient(a, b) = IF (a < 0) = (b < 0) THEN q ELSE -q
  BY DEF Quotient
<1> HIDE DEF m, d, q, r
<1>5. d * q \in Nat /\ q * d = d * q /\ (-q) * d = -(d * q) /\ q * (-d) = -(d * q) /\ (-q) * (-d) = d * q
  BY <1>2, <1>3
<1>6. q <= m
  <2>1. d * q >= q
    BY <1>2, <1>3
  <2>2. QED
    BY <1>2, <1>3, <1>5, <2>1
<1>7. \A n \in Int : (n < 0 => Abs(n) = -n) /\ (~(n < 0) => Abs(n) = n)
  BY DEF Abs
<1>8. Abs(b) = d
  BY DEF d
<1>9. CASE a < 0 /\ b < 0
  <2>1. Quotient(a, b) = q /\ q * b = -(d * q)
    BY <1>2, <1>4, <1>5, <1>9
  <2>2. a - q * b = -r
    BY <1>2, <1>3, <1>5, <1>9, <2>1
  <2>3. q <= INT_MAX
    <3>1. CASE m <= INT_MAX
      BY <1>1, <1>2, <1>3, <1>6, <3>1
    <3>2. CASE m = INT_MAX + 1
      <4>1. a = INT_MIN
        BY <1>1, <1>2, <1>9, <3>2 DEF INT_MIN
      <4>2. d # 1
        BY <1>2, <1>9, <4>1
      <4>3. d * q >= 2 * q
        BY <1>2, <1>3, <4>2
      <4>4. QED
        BY <1>1, <1>2, <1>3, <1>5, <3>2, <4>3
    <3>3. QED
      BY <1>1, <1>2, <3>1, <3>2
  <2>4. q \in Ints
    BY <1>1, <1>3, <2>3 DEF Ints, INT_MIN
  <2>5. Abs(-r) < d /\ (r = 0 => q * b = a) /\ (r # 0 => -r < 0)
    BY <1>2, <1>3, <1>7, <1>9, <2>1
  <2>6. QED
    BY <1>3, <1>8, <1>9, <2>1, <2>2, <2>4, <2>5 DEF IsQuotient
<1>10. CASE a < 0 /\ ~(b < 0)
  <2>1. Quotient(a, b) = -q /\ (-q) * b = -(d * q)
    BY <1>2, <1>4, <1>5, <1>10
  <2>2. a - (-q) * b = -r
    BY <1>2, <1>3, <1>5, <1>10, <2>1
  <2>3. -q \in Ints
    BY <1>1, <1>2, <1>3, <1>6 DEF Ints, INT_MIN
  <2>4. Abs(-r) < d /\ (r = 0 => (-q) * b = a) /\ (r # 0 => -r < 0)
    BY <1>2, <1>3, <1>7, <1>10, <2>1
  <2>5. QED
    BY <1>3, <1>8, <1>10, <2>1, <2>2, <2>3, <2>4 DEF IsQuotient
<1>11. CASE ~(a < 0) /\ b < 0
  <2>1. Quotient(a, b) = -q /\ (-q) * b = d * q
    BY <1>2, <1>4, <1>5, <1>11
  <2>2. a - (-q) * b = r
    BY <1>2, <1>3, <1>5, <1>11, <2>1
  <2>3. -q \in Ints
    BY <1>1, <1>2, <1>3, <1>6 DEF Ints, INT_MIN
  <2>4. Abs(r) < d /\ ~(r < 0)
    BY <1>2, <1>3, <1>7
  <2>5. QED
    BY <1>8, <1>11, <2>1, <2>2, <2>3, <2>4 DEF IsQuotient
<1>12. CASE ~(a < 0) /\ ~(b < 0)
  <2>1. Quotient(a, b) = q /\ q * b = d * q
    BY <1>2, <1>4, <1>5, <1>12
  <2>2. a - q * b = r
    BY <1>2, <1>3, <1>5, <1>12, <2>1
  <2>3. q \in Ints
    BY <1>1, <1>2, <1>3, <1>6, <1>12 DEF Ints, INT_MIN
  <2>4. Abs(r) < d /\ ~(r < 0)
    BY <1>2, <1>3, <1>7
  <2>5. QED
    BY <1>8, <1>12, <2>1, <2>2, <2>3, <2>4 DEF IsQuotient
<1>13. QED
  BY <1>9, <1>10, <1>11, <1>12

\* Calculate, once the line has been read.
Computes(op, a, b) ==
  CASE op \notin Ops -> Says("invalid operator", << >>)
    [] op = 43 -> Says("result", Decimal(Wrap(a + b)))
    [] op = 45 -> Says("result", Decimal(Wrap(a - b)))
    [] op = 42 -> Says("result", Decimal(Wrap(a * b)))
    [] op = 47 /\ b = 0 -> Says("division by zero", << >>)
    [] op = 47 /\ a = INT_MIN /\ b = -1 -> Says("fault", << >>)
    [] OTHER -> Says("result", Decimal(Quotient(a, b)))

LEMMA CalculateReads ==
  ASSUME NEW t \in Seq(Int), NEW k \in 1 .. Len(t), t[k] \in Ops,
         NEW a \in Operand(t, 1, k - 1), NEW b \in Operand(t, k + 1, Len(t))
  PROVE  a \in Ints /\ b \in Ints /\ Calculate(t) = Computes(t[k], a, b)
<1> DEFINE n1 == Number(t, Skip(t, 1, {Space}))
           o == Skip(t, n1.end, {Space})
           n2 == Number(t, Skip(t, o + 1, {Space}))
<1>0. Len(t) \in Nat
  BY LenProperties
<1>1. Calculate(t) = Computes(At(t, o), n1.value, n2.value)
  BY Zenon DEF Calculate, Computes
<1>2. ~(t[k] \in Digit) /\ t[k] # Space
  BY OpsApart
<1>3. At(t, k) = t[k]
  BY <1>0 DEF At
<1>4. a \in Ints /\ n1.value = a /\ o = k
  <2>1. k - 1 \in Nat /\ k - 1 <= Len(t) /\ (k - 1) + 1 = k /\ 1 \in Nat \ {0}
    BY <1>0
  <2>2. ~(At(t, (k - 1) + 1) \in Digit) /\ At(t, (k - 1) + 1) # Space
    BY <1>2, <1>3, <2>1
  <2>3. /\ a \in Ints /\ Number(t, Skip(t, 1, {Space})).value = a
        /\ Skip(t, Number(t, Skip(t, 1, {Space})).end, {Space}) = (k - 1) + 1
    BY <2>1, <2>2, ParsesOperand
  <2>4. QED
    BY <2>1, <2>3
<1>5. b \in Ints /\ n2.value = b
  <2>1. k + 1 \in Nat \ {0} /\ Len(t) \in Nat /\ Len(t) <= Len(t)
    BY <1>0
  <2>2. At(t, Len(t) + 1) = 0
    BY <1>0 DEF At
  <2>3. ~(At(t, Len(t) + 1) \in Digit) /\ At(t, Len(t) + 1) # Space
    <3>1. ~(0 \in Digit) /\ 0 # Space
      BY DEF Digit, Space
    <3>2. QED
      BY <2>2, <3>1, Zenon
  <2>4. b \in Ints /\ Number(t, Skip(t, k + 1, {Space})).value = b
    BY <2>1, <2>3, ParsesOperand
  <2>5. QED
    BY <1>4, <2>4
<1> HIDE DEF n1, o, n2
<1>6. QED
  BY <1>1, <1>3, <1>4, <1>5, Zenon

LEMMA PrintsDecimal ==
  ASSUME NEW n \in Ints
  PROVE  Prints(Says("result", Decimal(n)), n) /\ Wrap(n) = n
<1>1. Spells(Decimal(n), n) /\ Wrap(n) = n
  BY DecimalSpells, WrapInts
<1> DEFINE ans == Says("result", Decimal(n))
<1>2. ans.says = "result" /\ ans.text = Decimal(n)
  BY DEF Says
<1> HIDE DEF ans
<1>3. Prints(ans, n)
  BY <1>1, <1>2, Zenon DEF Prints
<1>4. QED
  BY <1>1, <1>3 DEF ans

\* What CalculatorCorrect says of an answer.
RightAnswer(answer, op, a, b) ==
  /\ op = 43 /\ a + b \in Ints => Prints(answer, a + b)
  /\ op = 45 /\ a - b \in Ints => Prints(answer, a - b)
  /\ op = 42 /\ a * b \in Ints => Prints(answer, a * b)
  /\ op = 47 /\ b = 0 => answer.says = "division by zero"
  /\ op = 47 /\ b # 0 /\ ~(a = INT_MIN /\ b = -1) =>
       \E q \in Ints : IsQuotient(q, a, b) /\ Prints(answer, q)

LEMMA ComputesRight ==
  ASSUME NEW a \in Ints, NEW b \in Ints, NEW op \in Ops
  PROVE  RightAnswer(Computes(op, a, b), op, a, b)
<1> DEFINE c == Computes(op, a, b)
<1>1. ASSUME op = 43, a + b \in Ints PROVE Prints(c, a + b)
  <2>1. c = Says("result", Decimal(Wrap(a + b)))
    BY <1>1 DEF Computes
  <2>2. QED
    BY <1>1, <2>1, PrintsDecimal
<1>2. ASSUME op = 45, a - b \in Ints PROVE Prints(c, a - b)
  <2>1. c = Says("result", Decimal(Wrap(a - b)))
    BY <1>2 DEF Computes
  <2>2. QED
    BY <1>2, <2>1, PrintsDecimal
<1>3. ASSUME op = 42, a * b \in Ints PROVE Prints(c, a * b)
  <2>1. c = Says("result", Decimal(Wrap(a * b)))
    BY <1>3 DEF Computes
  <2>2. QED
    BY <1>3, <2>1, PrintsDecimal
<1>4. ASSUME op = 47, b = 0 PROVE c.says = "division by zero"
  <2>1. c = Says("division by zero", << >>)
    BY <1>4 DEF Computes
  <2>2. Says("division by zero", << >>).says = "division by zero"
    BY DEF Says
  <2>3. QED
    BY <2>1, <2>2, Zenon
<1>5. ASSUME op = 47, b # 0, ~(a = INT_MIN /\ b = -1)
      PROVE  \E q \in Ints : IsQuotient(q, a, b) /\ Prints(c, q)
  <2>1. c = Says("result", Decimal(Quotient(a, b)))
    BY <1>5 DEF Computes
  <2>2. Quotient(a, b) \in Ints /\ IsQuotient(Quotient(a, b), a, b)
    BY <1>5, QuotientCorrect
  <2>3. Prints(c, Quotient(a, b))
    BY <2>1, <2>2, PrintsDecimal
  <2>4. QED
    BY <2>2, <2>3
<1> HIDE DEF c
<1>6. RightAnswer(c, op, a, b)
  BY <1>1, <1>2, <1>3, <1>4, <1>5 DEF RightAnswer
<1>7. QED
  BY <1>6 DEF c

\* The invariant: the answer to a line of the calculator is what it computes.
CalculatorInv ==
  Answered /\ last.mode = "calculator" =>
    last.line \in Seq(Int) /\ (last.line = <<113>> \/ last.answer = Calculate(last.line))

LEMMA CalculatorInvCorrect == CalculatorInv => CalculatorCorrect
<1> SUFFICES ASSUME CalculatorInv, Answered, last.mode = "calculator",
                    NEW k \in 1 .. Len(last.line), last.line[k] \in Ops,
                    NEW a \in Operand(last.line, 1, k - 1),
                    NEW b \in Operand(last.line, k + 1, Len(last.line))
             PROVE  RightAnswer(last.answer, last.line[k], a, b)
  BY Zenon DEF CalculatorCorrect, RightAnswer
<1> DEFINE t == last.line
<1>1. t \in Seq(Int) /\ (t = <<113>> \/ last.answer = Calculate(t))
  BY DEF CalculatorInv
<1>2. t # <<113>>
  <2>1. ASSUME t = << 113 >> PROVE FALSE
    <3>1. Len(t) = 1 /\ t[1] = 113
      BY <2>1
    <3>2. t[k] = 113
      BY <3>1
    <3>3. QED
      BY <3>2 DEF Ops
  <2>2. QED
    BY <2>1
<1> HIDE DEF t
<1>3. a \in Ints /\ b \in Ints /\ Calculate(t) = Computes(t[k], a, b)
  BY <1>1, CalculateReads DEF t
<1>4. RightAnswer(Computes(t[k], a, b), t[k], a, b)
  <2>1. t[k] \in Ops
    BY DEF t
  <2>2. QED
    BY <1>3, <2>1, ComputesRight
<1>5. QED
  BY <1>1, <1>2, <1>3, <1>4, Zenon DEF t

(* The answer is computed from the line that readline returns.             *)
LEMMA CalculatorEnter ==
  ASSUME NEW t \in Seq(Keystroke), NEW r \in Nat, NEW enter \in {NL, CR}, r = Len(t),
         Waiting(t, r, enter), readline
  PROVE  CalculatorInv'
<1>0. t \in Seq(Int) /\ Len(t) \in Nat /\ r <= Len(t) /\ \A k \in 1 .. Len(t) : t[k] \in Int
  BY KeystrokeSeq
<1>1. Head(keys) = enter
  <2>1. keys = Append(SubSeq(t, r + 1, Len(t)), enter)
    BY DEF Waiting
  <2>2. r = Len(t) => Head(keys) = enter
    BY <1>0, <2>1, KeysNext
  <2>3. QED
    BY <2>2
<1>2. ~(enter \in Backspaces) /\ ~(enter \in Printable)
  BY DEF NL, CR, Backspaces, Printable
<1>3. Return
  BY <1>1, <1>2, Zenon DEF readline
<1>4. last = [mode |-> smode, typed |-> t, line |-> << >>, answer |-> Nothing]
  BY DEF Waiting
<1>5. last'.mode = smode /\ last'.line = buf /\ last'.answer = Answer(buf).answer
  BY <1>3, <1>4 DEF Return
<1>6. buf \in Seq(Int)
  <2>1. PICK f \in Nat : f <= r /\ buf = Edited(SubSeq(t, 1, f))
    <3>1. CASE full
      <4>1. PICK f \in 0 .. r : buf = Edited(SubSeq(t, 1, f))
        BY <3>1 DEF Waiting, Reading
      <4>2. f \in Nat /\ f <= r
        OBVIOUS
      <4>3. QED
        BY <4>1, <4>2
    <3>2. CASE ~full
      <4>1. buf = Edited(SubSeq(t, 1, r)) /\ r <= r
        BY <3>2 DEF Waiting, Reading
      <4>2. QED
        BY <4>1
    <3>3. QED
      BY <3>1, <3>2
  <2>2. f \in 0 .. r /\ \A k \in 1 .. f : t[k] \in Int
    BY <1>0, <2>1
  <2>3. SubSeq(t, 1, f) \in Seq(Int)
    BY <2>2, SubSeqProperties
  <2>4. EditOK(SubSeq(t, 1, f))
    BY <2>2 DEF Waiting, Reading
  <2>5. QED
    BY <2>1, <2>3, <2>4, EditedSeq
<1>7. ASSUME smode = "calculator" PROVE buf = <<113>> \/ Answer(buf).answer = Calculate(buf)
  <2>1. Answer(buf) = calculator_demo(buf)
    BY <1>7 DEF Answer
  <2>2. buf # <<113>> => calculator_demo(buf).answer = Calculate(buf)
    BY DEF calculator_demo
  <2>3. QED
    BY <2>1, <2>2, Zenon
<1>8. QED
  BY <1>5, <1>6, <1>7, Zenon DEF CalculatorInv

LEMMA CalculatorSame ==
  ASSUME CalculatorInv, UNCHANGED <<keys, last>>
  PROVE  CalculatorInv'
  BY DEF CalculatorInv, Answered

LEMMA CalculatorStep == ShellInv /\ CalculatorInv /\ [Next]_vars => CalculatorInv'
<1> SUFFICES ASSUME ShellInv, CalculatorInv, [Next]_vars PROVE CalculatorInv'
  OBVIOUS
<1>1. CASE UNCHANGED <<keys, last>>
  BY <1>1, CalculatorSame
<1>2. CASE Prompt
  <2>1. ~(last'.mode \in Modes)
    BY <1>2 DEF Prompt, NoLine, Modes
  <2>2. QED
    BY <2>1 DEF CalculatorInv, Answered
<1>3. CASE Type
  <2>1. PICK t \in Typed[smode], enter \in {NL, CR} : keys' = Append(t, enter)
    BY <1>3 DEF Type
  <2>2. t \in Seq(Keystroke)
    BY <1>3, ShellAssumption DEF Type, Keystroke
  <2>3. t \in Seq(Int) /\ enter \in Int
    BY <2>2, KeystrokeSeq DEF NL, CR
  <2>4. keys' # << >>
    BY <2>1, <2>3, AppendProperties
  <2>5. QED
    BY <2>4 DEF CalculatorInv, Answered
<1>4. CASE readline
  <2>1. keys # << >>
    BY <1>4 DEF readline
  <2>2. PICK t \in Seq(Keystroke), r \in Nat, enter \in {NL, CR} : r <= Len(t) /\ Waiting(t, r, enter)
    BY <2>1 DEF ShellInv
  <2>3. Len(t) \in Nat
    BY <2>2, KeystrokeSeq
  <2>4. CASE r < Len(t)
    <3>1. Waiting(t, r + 1, enter)'
      BY <1>4, <2>2, <2>4, ReadStep
    <3>2. r + 1 \in Nat /\ r + 1 <= Len(t) /\ keys' = Append(SubSeq(t, (r + 1) + 1, Len(t)), enter)
      BY <2>3, <2>4, <3>1 DEF Waiting
    <3>3. keys' # << >>
      BY <3>2, KeysNext, ZenonT(60)
    <3>4. QED
      BY <3>3 DEF CalculatorInv, Answered
  <2>5. CASE r = Len(t)
    BY <1>4, <2>2, <2>5, CalculatorEnter
  <2>6. QED
    BY <2>2, <2>3, <2>4, <2>5
<1>5. QED
  BY <1>1, <1>2, <1>3, <1>4 DEF Next, ShellNext, Stopped, vars, shellVars, StartShell

(* For an int of every size and every line of any length: what the         *)
(* calculator of the shell prints for "a op b" is the result, with the     *)
(* digits that stand for it, as long as int can hold a, b and the result.  *)
THEOREM CalculatorIsCorrect == Spec => []CalculatorCorrect
<1>1. Init => CalculatorInv
  BY DEF Init, ShellInit, NoLine, CalculatorInv, Answered, Modes
<1>2. QED
  BY <1>1, ShellInvariant, CalculatorStep, CalculatorInvCorrect, PTL DEF Spec

-----------------------------------------------------------------------------
(* A line that was read is answered.                                       *)

AnswerGiven == Answered => last.answer # Nothing

LEMMA SaysSomething ==
  ASSUME NEW a, a.says # "nothing"
  PROVE  a # Nothing
  BY DEF Nothing, Says

LEMMA ComputesAnswer ==
  ASSUME NEW op, NEW a, NEW b
  PROVE  Computes(op, a, b).says # "nothing"
<1> DEFINE c == Computes(op, a, b)
<1>1. \A what, text : Says(what, text).says = what
  BY DEF Says
<1>2. \E what, text : c = Says(what, text) /\ what # "nothing"
  <2>1. CASE op \notin Ops
    <3>1. c = Says("invalid operator", << >>)
      BY <2>1, Zenon DEF Computes, Ops
    <3>2. "invalid operator" # "nothing"
      BY Zenon
    <3>3. c = Says("invalid operator", << >>) /\ "invalid operator" # "nothing"
      BY <3>1, <3>2, Zenon
    <3>4. QED
      BY <3>3, Zenon
  <2>2. CASE op = 43
    <3>1. c = Says("result", Decimal(Wrap(a + b)))
      BY <2>2 DEF Computes, Ops
    <3>2. QED
      BY <3>1
  <2>3. CASE op = 45
    <3>1. c = Says("result", Decimal(Wrap(a - b)))
      BY <2>3 DEF Computes, Ops
    <3>2. QED
      BY <3>1
  <2>4. CASE op = 42
    <3>1. c = Says("result", Decimal(Wrap(a * b)))
      BY <2>4 DEF Computes, Ops
    <3>2. QED
      BY <3>1
  <2>5. CASE op = 47 /\ b = 0
    <3>1. c = Says("division by zero", << >>)
      BY <2>5 DEF Computes, Ops
    <3>2. "division by zero" # "nothing"
      BY Zenon
    <3>3. c = Says("division by zero", << >>) /\ "division by zero" # "nothing"
      BY <3>1, <3>2, Zenon
    <3>4. QED
      BY <3>3, Zenon
  <2>6. CASE op = 47 /\ a = INT_MIN /\ b = -1
    <3>1. c = Says("fault", << >>)
      BY <2>6 DEF Computes, Ops
    <3>2. QED
      BY <3>1
  <2>7. CASE op = 47 /\ b # 0 /\ ~(a = INT_MIN /\ b = -1)
    <3>1. c = Says("result", Decimal(Quotient(a, b)))
      BY <2>7 DEF Computes, Ops
    <3>2. QED
      BY <3>1
  <2>8. QED
    BY <2>1, <2>2, <2>3, <2>4, <2>5, <2>6, <2>7, Zenon DEF Ops
<1>3. QED
  BY <1>1, <1>2, Zenon

(* Each program of the shell has an answer to every line.                  *)
LEMMA EveryLineHasAnswer ==
  ASSUME smode \in Modes, NEW line
  PROVE  Answer(line).answer # Nothing
<1>1. CASE smode = "menu"
  <2>1. /\ Answer(line) = main(line)
        /\ \A m, w : Go(m, w).answer.says = w
    BY <1>1 DEF Answer, Go, Says
  <2>2. Answer(line).answer.says # "nothing"
    <3>1. CASE line = << >>
      BY <2>1, <3>1 DEF main
    <3>2. CASE line # << >>
      <4>1. CASE line[1] = 48
        BY <2>1, <3>2, <4>1 DEF main
      <4>2. CASE line[1] = 51
        BY <2>1, <3>2, <4>2 DEF main
      <4>3. CASE line[1] = 54
        BY <2>1, <3>2, <4>3 DEF main
      <4>4. CASE line[1] \in Digit \ {48, 51, 54}
        BY <2>1, <3>2, <4>4 DEF main
      <4>5. CASE line[1] \notin Digit
        <5>1. ~(line[1] \in {48, 51, 54})
          BY <4>5 DEF Digit
        <5>2. main(line) = Go("menu", "unknown option")
          BY <3>2, <4>5, <5>1, Zenon DEF main
        <5>3. "unknown option" # "nothing"
          BY Zenon
        <5>4. Go("menu", "unknown option").answer.says = "unknown option"
          BY <2>1, Zenon
        <5>5. QED
          BY <2>1, <5>2, <5>3, <5>4, Zenon
      <4>6. QED
        BY <4>1, <4>2, <4>3, <4>4, <4>5
    <3>3. QED
      BY <3>1, <3>2
  <2>3. QED
    BY <2>1, <2>2, SaysSomething
<1>2. CASE smode = "echo"
  BY <1>2 DEF Answer, echo_demo, Go, Says, Nothing
<1>3. CASE smode = "calculator"
  <2>1. Answer(line) = calculator_demo(line)
    BY <1>3 DEF Answer
  <2>2. CASE line = <<113>>
    BY <2>1, <2>2 DEF calculator_demo, Go, Says, Nothing
  <2>3. CASE line # <<113>>
    <3>1. calculator_demo(line).answer = Calculate(line)
      BY <2>3 DEF calculator_demo
    <3>2. PICK op, a, b : Calculate(line) = Computes(op, a, b)
      BY ZenonT(60) DEF Calculate, Computes
    <3>3. Calculate(line).says # "nothing"
      BY <3>2, ComputesAnswer, Zenon
    <3>4. QED
      BY <2>1, <3>1, <3>3, SaysSomething
  <2>4. QED
    BY <2>2, <2>3
<1>4. QED
  BY <1>1, <1>2, <1>3 DEF Modes

LEMMA AnswerStep == ShellInv /\ AnswerGiven /\ [Next]_vars => AnswerGiven'
<1> SUFFICES ASSUME ShellInv, AnswerGiven, [Next]_vars PROVE AnswerGiven'
  OBVIOUS
<1>1. CASE UNCHANGED <<keys, last>>
  BY <1>1 DEF AnswerGiven, Answered
<1>2. CASE Prompt
  <2>1. ~(last'.mode \in Modes)
    BY <1>2 DEF Prompt, NoLine, Modes
  <2>2. QED
    BY <2>1 DEF AnswerGiven, Answered
<1>3. CASE Type
  <2>1. PICK t \in Typed[smode], enter \in {NL, CR} : keys' = Append(t, enter)
    BY <1>3 DEF Type
  <2>2. t \in Seq(Keystroke)
    BY <1>3, ShellAssumption DEF Type, Keystroke
  <2>3. t \in Seq(Int) /\ enter \in Int
    BY <2>2, KeystrokeSeq DEF NL, CR
  <2>4. keys' # << >>
    BY <2>1, <2>3, AppendProperties
  <2>5. QED
    BY <2>4 DEF AnswerGiven, Answered
<1>4. CASE readline
  <2>1. keys # << >>
    BY <1>4 DEF readline
  <2>2. PICK t \in Seq(Keystroke), r \in Nat, enter \in {NL, CR} : r <= Len(t) /\ Waiting(t, r, enter)
    BY <2>1 DEF ShellInv
  <2>3. Len(t) \in Nat
    BY <2>2, KeystrokeSeq
  <2>4. CASE r < Len(t)
    <3>1. Waiting(t, r + 1, enter)'
      BY <1>4, <2>2, <2>4, ReadStep
    <3>2. r + 1 \in Nat /\ r + 1 <= Len(t) /\ keys' = Append(SubSeq(t, (r + 1) + 1, Len(t)), enter)
      BY <2>3, <2>4, <3>1 DEF Waiting
    <3>3. keys' # << >>
      BY <3>2, KeysNext, Zenon
    <3>4. QED
      BY <3>3 DEF AnswerGiven, Answered
  <2>5. CASE r = Len(t)
    <3>1. keys = Append(SubSeq(t, r + 1, Len(t)), enter) /\ smode \in Modes
      BY <2>2 DEF Waiting
    <3>2. r = Len(t) => Head(keys) = enter
      BY <2>2, <2>3, <3>1, KeysNext
    <3>3. ~(enter \in Backspaces) /\ ~(enter \in Printable)
      BY DEF NL, CR, Backspaces, Printable
    <3>4. Return
      BY <1>4, <2>5, <3>2, <3>3, Zenon DEF readline
    <3>5. last = [mode |-> smode, typed |-> t, line |-> << >>, answer |-> Nothing]
      BY <2>2 DEF Waiting
    <3>6. last'.answer = Answer(buf).answer
      BY <3>4, <3>5 DEF Return
    <3>7. QED
      BY <3>1, <3>6, EveryLineHasAnswer, Zenon DEF AnswerGiven
  <2>6. QED
    BY <2>2, <2>3, <2>4, <2>5
<1>5. QED
  BY <1>1, <1>2, <1>3, <1>4 DEF Next, ShellNext, Stopped, vars, shellVars, StartShell

(* When the last keystroke of a line has been read, its answer is there:   *)
(* Enter of either kind is recognised also when the buffer is full, and no *)
(* program of the shell swallows a line.  With the reader's fairness this  *)
(* is LineAnswered: a line is finite, and each step of readline takes one  *)
(* keystroke of it, which is the second part.                              *)
THEOREM ReadLinesAreAnswered ==
  Spec => [](Answered => last.answer # Nothing) /\ [][keys # << >> => keys' \in {keys, Tail(keys)}]_vars
<1>1. Init => AnswerGiven
  BY DEF Init, ShellInit, NoLine, AnswerGiven, Answered, Modes
<1>2. AnswerGiven => (Answered => last.answer # Nothing)
  BY DEF AnswerGiven
<1>3. [Next]_vars => [keys # << >> => keys' \in {keys, Tail(keys)}]_vars
  BY DEF Next, ShellNext, Prompt, Type, readline, Stopped, vars, shellVars, StartShell
<1>4. QED
  BY <1>1, <1>2, <1>3, ShellInvariant, AnswerStep, PTL DEF Spec

-----------------------------------------------------------------------------
(* If the stack fits, the shell's first instructions find their page and   *)
(* their stack: it starts with its menu.                                   *)
THEOREM ShellStarts ==
  ASSUME StackFits
  PROVE  Spec => [][smode = "off" => smode' \in {"off", "menu"}]_vars
<1>1. ASSUME Layout, StartShell PROVE smode' = "menu"
  <2> DEFINE base == build.free_ram + 8
             img == build.shell_pages
  <2>0. kpc = "user"
    BY <1>1 DEF StartShell
  <2>1. /\ Laid(Shell.space, base, img, Finished(img)) /\ base \in Nat /\ img \in Nat /\ img <= 2
        /\ img # 0
    BY <1>1, <2>0, ShellIs, BaseFacts DEF StackFits, Layout, KernelTypes
  <2>2. Finished(img) = 6
    BY <2>1 DEF Finished
  <2>3. Max(ShellStack) = USER_BASE + (img + 1)
    <3>1. ShellStack = (4096 + img) .. (4096 + img + 1) /\ 4096 + (img + 1) \in ShellStack
      BY <2>1, Places, SMT DEF ShellStack
    <3>2. \A y \in ShellStack : 4096 + (img + 1) >= y
      BY <2>1, <3>1
    <3>3. \A x \in ShellStack : (\A y \in ShellStack : x >= y) => x = 4096 + (img + 1)
      BY <2>1, <3>1
    <3>4. QED
      BY <3>1, <3>2, <3>3, Places DEF Max
  <2> HIDE DEF base, img
  <2>4. ASSUME NEW j \in Nat, j <= 3 PROVE Frames(Shell.space, USER_BASE + j) # {}
    <3>1. Laid(Shell.space, base, img, 6) /\ 6 \in Nat /\ 6 <= 1023 /\ j + 3 <= 6
      BY <2>1, <2>2, <2>4
    <3>2. Frames(Shell.space, USER_BASE + j) = {base + (IF j = 0 THEN 3 ELSE j + 4)}
      BY <2>1, <3>1, UserFrame
    <3>3. QED
      BY <3>2
  <2>5. USER_BASE + 0 = USER_BASE /\ 0 \in Nat /\ 0 <= 3 /\ img + 1 \in Nat /\ img + 1 <= 3
    BY <2>1, Places
  <2>6. Frames(Shell.space, USER_BASE) # {} /\ Frames(Shell.space, Max(ShellStack)) # {}
    BY <2>3, <2>4, <2>5
  <2>7. QED
    BY <1>1, <2>6 DEF StartShell
<1>2. ASSUME ShellInv, [Next]_vars, ~StartShell, smode = "off" PROVE smode' = "off"
  <2>1. ~Prompt /\ ~Type
    BY <1>2 DEF Prompt, Type, Modes
  <2>2. ~readline
    <3>1. keys # << >> => smode \in Modes
      BY <1>2 DEF ShellInv, Waiting
    <3>2. QED
      BY <1>2, <3>1 DEF readline, Modes
  <2>3. QED
    BY <1>2, <2>1, <2>2 DEF Next, ShellNext, Stopped, vars, shellVars
<1>3. Layout /\ ShellInv /\ [Next]_vars => [smode = "off" => smode' \in {"off", "menu"}]_vars
  BY <1>1, <1>2
<1>4. QED
  BY <1>3, LayoutInvariant, ShellInvariant, PTL DEF Spec
=============================================================================
