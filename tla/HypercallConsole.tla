------------------------- MODULE HypercallConsole -------------------------
(***************************************************************************)
(* The console of the guests: the stdin thread fills the keyboard ring,    *)
(* and vCPU threads empty it through the hypercall port (0x500) while      *)
(* their guests run.                                                       *)
(*                                                                         *)
(*   VMM    src/kvm-vmm-x86/src/main.c: stdin_monitor_thread_func,         *)
(*          handle_io on HYPERCALL_PORT, handle_hypercall_out / _in, the   *)
(*          loop of vcpu_thread, over module KeyboardBuffer.               *)
(*   guest  a list of port instructions; for the 1K OS the ones that       *)
(*          os-1k/user.c compiles to: putchar and exit are one OUT,        *)
(*          getchar is an OUT and an IN repeated until the IN yields       *)
(*          something other than -1.                                       *)
(*                                                                         *)
(* A GETCHAR is two exits of the same vCPU.  Between them the character is *)
(* held in the vCPU's context, and the other threads run.                  *)
(***************************************************************************)
EXTENDS Integers, Sequences, SequencesExt

CONSTANTS
  Size,      \* KEYBOARD_BUFFER_SIZE
  Vcpu,      \* the vCPUs
  Programs,  \* the guests that may be run: program[v] is what v's guest executes
  Inputs,    \* what may be typed: sequences of bytes without repetition
  ReadMax    \* sizeof(buf) of the stdin thread

Byte == 0..255

Typed == UNION {Range(s) : s \in Inputs}

\* Hypercall numbers, in AL.
HC_EXIT == 0
HC_PUTCHAR == 1
HC_GETCHAR == 2

\* A guest's port instructions.
Out(al) == [op |-> "OUT", al |-> al]
InRetry == [op |-> "IN", al |-> HC_GETCHAR]
Hlt == [op |-> "HLT", al |-> 0]

Instructions == [op : {"OUT", "IN", "HLT"}, al : Byte]

ASSUME SizeAssumption == Size \in Nat /\ Size > 1
ASSUME ReadMaxAssumption == ReadMax \in Nat /\ ReadMax > 0
ASSUME ProgramsAssumption == Programs \subseteq [Vcpu -> Seq(Instructions)]
ASSUME InputsAssumption == \A s \in Inputs : s \in Seq(Byte) /\ IsInjective(s)

VARIABLES
  buffer, head, tail,  \* keyboard_buffer
  keys,                \* what is still to be typed
  tty,                 \* typed, not yet read by the VMM
  buf,                 \* read by the stdin thread, not yet pushed
  pending_getchar,     \* per vCPU context
  getchar_result,
  running,
  thread,              \* vcpu_thread: "loop" or "done"
  program,             \* the guest binaries: their port instructions
  gpc,                 \* the guest's next port instruction
  got,                 \* history: what getchar() returned to the guest
  accepted,            \* history: characters stored in the ring, in order
  popped               \* history: <<vCPU, character>> taken out of it, in order

ringvars == <<buffer, head, tail>>
stdinvars == <<keys, tty, buf, accepted>>
guestvars == <<program, gpc, got>>
ctxvars == <<pending_getchar, getchar_result, running, thread>>
vars == <<ringvars, stdinvars, guestvars, ctxvars, popped>>

\* The ring's operations do not touch ret, which only KeyboardBuffer's own
\* specification records.
KB == INSTANCE KeyboardBuffer WITH Chars <- Typed, ret <- -1

Init ==
  /\ KB!RingInit
  /\ keys \in Inputs /\ tty = << >> /\ buf = << >> /\ accepted = << >>
  /\ pending_getchar = [v \in Vcpu |-> 0]
  /\ getchar_result = [v \in Vcpu |-> 0]
  /\ running = [v \in Vcpu |-> TRUE]
  /\ thread = [v \in Vcpu |-> "loop"]
  /\ program \in Programs
  /\ gpc = [v \in Vcpu |-> 1]
  /\ got = [v \in Vcpu |-> << >>]
  /\ popped = << >>

-----------------------------------------------------------------------------
(* The user and the stdin thread.                                          *)

Type ==
  /\ keys # << >>
  /\ tty' = Append(tty, Head(keys)) /\ keys' = Tail(keys)
  /\ UNCHANGED <<ringvars, buf, accepted, guestvars, ctxvars, popped>>

\* select reports input, and read takes what is there, up to sizeof(buf).
\* Without input select times out and nothing changes.
StdinRead ==
  LET n == IF Len(tty) < ReadMax THEN Len(tty) ELSE ReadMax IN
  /\ buf = << >> /\ tty # << >>
  /\ buf' = SubSeq(tty, 1, n) /\ tty' = SubSeq(tty, n + 1, Len(tty))
  /\ UNCHANGED <<ringvars, keys, accepted, guestvars, ctxvars, popped>>

\* One keyboard_buffer_push of the loop over buf; a full ring drops it.
StdinPush ==
  /\ buf # << >>
  /\ KB!keyboard_buffer_push(Head(buf))
  /\ buf' = Tail(buf)
  /\ accepted' = IF head' # head THEN Append(accepted, Head(buf)) ELSE accepted
  /\ UNCHANGED <<keys, tty, guestvars, ctxvars, popped>>

-----------------------------------------------------------------------------
(* A vCPU: KVM_RUN returns at the guest's next port instruction.           *)

Instr(v) == program[v][gpc[v]]

InGuest(v) == thread[v] = "loop" /\ running[v] /\ gpc[v] \in DOMAIN program[v]

NextInstr(v) == gpc' = [gpc EXCEPT ![v] = @ + 1] /\ UNCHANGED program

\* Mutant: the result is cached once for all vCPUs instead of per context.
GetcharSharesResult(v) ==
  /\ \E ch \in Typed \cup {KB!Empty} :
       /\ KB!keyboard_buffer_pop(ch)
       /\ getchar_result' = [u \in Vcpu |-> ch]
       /\ popped' = IF ch = KB!Empty THEN popped ELSE Append(popped, <<v, ch>>)
  /\ pending_getchar' = [pending_getchar EXCEPT ![v] = 1]
  /\ NextInstr(v)
  /\ UNCHANGED <<running, thread>>

\* Mutant: the character is kept as a signed char.
GetcharSigned(v) ==
  /\ \E ch \in Typed \cup {KB!Empty} :
       /\ KB!keyboard_buffer_pop(ch)
       /\ getchar_result' = [getchar_result EXCEPT ![v] = IF ch > 127 THEN ch - 256 ELSE ch]
       /\ popped' = IF ch = KB!Empty THEN popped ELSE Append(popped, <<v, ch>>)
  /\ pending_getchar' = [pending_getchar EXCEPT ![v] = 1]
  /\ NextInstr(v)
  /\ UNCHANGED <<running, thread>>

HypercallGetchar(v) ==
  /\ \E ch \in Typed \cup {KB!Empty} :
       /\ KB!keyboard_buffer_pop(ch)
       /\ getchar_result' = [getchar_result EXCEPT ![v] = ch]
       /\ popped' = IF ch = KB!Empty THEN popped ELSE Append(popped, <<v, ch>>)
  /\ pending_getchar' = [pending_getchar EXCEPT ![v] = 1]
  /\ NextInstr(v)
  /\ UNCHANGED <<running, thread>>

HypercallExit(v) ==
  /\ running' = [running EXCEPT ![v] = FALSE]
  /\ NextInstr(v)
  /\ UNCHANGED <<ringvars, pending_getchar, getchar_result, thread, popped>>

\* The character goes to stdout under stdout_mutex; no state of the VMM changes.
HypercallPutchar(v) ==
  NextInstr(v) /\ UNCHANGED <<ringvars, ctxvars, popped>>

\* -1 makes vcpu_thread leave its loop.
HypercallUnknown(v) ==
  /\ thread' = [thread EXCEPT ![v] = "done"]
  /\ UNCHANGED <<ringvars, program, gpc, pending_getchar, getchar_result, running, popped>>

handle_hypercall_out(v) ==
  /\ InGuest(v) /\ Instr(v).op = "OUT"
  /\ \/ Instr(v).al = HC_EXIT /\ HypercallExit(v)
     \/ Instr(v).al = HC_PUTCHAR /\ HypercallPutchar(v)
     \/ Instr(v).al = HC_GETCHAR /\ HypercallGetchar(v)
     \/ Instr(v).al \notin {HC_EXIT, HC_PUTCHAR, HC_GETCHAR} /\ HypercallUnknown(v)
  /\ UNCHANGED <<stdinvars, got>>

\* Mutant: an IN always reports that nothing was typed.
InDataAlwaysEmpty(v) == 255

\* The byte the IN instruction reads: -1 becomes 0xFF, an unexpected IN 0.
InData(v) ==
  IF pending_getchar[v] = 0 THEN 0
  ELSE IF getchar_result[v] = -1 THEN 255
  ELSE getchar_result[v]

\* movsbl: AL as a signed byte.
SignExtend(b) == IF b > 127 THEN b - 256 ELSE b

\* handle_hypercall_in, and the guest's test of what it read: -1 repeats the
\* OUT, anything else is what getchar() returns.
handle_hypercall_in(v) ==
  LET ch == SignExtend(InData(v)) IN
  /\ InGuest(v) /\ Instr(v).op = "IN"
  /\ pending_getchar' = [pending_getchar EXCEPT ![v] = 0]
  /\ \/ ch = -1 /\ gpc' = [gpc EXCEPT ![v] = @ - 1] /\ UNCHANGED <<program, got>>
     \/ ch # -1 /\ NextInstr(v) /\ got' = [got EXCEPT ![v] = Append(@, ch)]
  /\ UNCHANGED <<ringvars, stdinvars, getchar_result, running, thread, popped>>

GuestHalts(v) ==
  /\ InGuest(v) /\ Instr(v).op = "HLT"
  /\ running' = [running EXCEPT ![v] = FALSE]
  /\ UNCHANGED <<ringvars, stdinvars, guestvars, pending_getchar, getchar_result, thread, popped>>

\* while (ctx->running)
ThreadEnds(v) ==
  /\ thread[v] = "loop" /\ ~running[v]
  /\ thread' = [thread EXCEPT ![v] = "done"]
  /\ UNCHANGED <<ringvars, stdinvars, guestvars, pending_getchar, getchar_result, running, popped>>

-----------------------------------------------------------------------------
VcpuStep(v) ==
  \/ handle_hypercall_out(v) \/ handle_hypercall_in(v) \/ GuestHalts(v) \/ ThreadEnds(v)

StdinStep == StdinRead \/ StdinPush

\* Every vCPU thread has ended and nobody types: the console is at rest.
Done ==
  /\ \A v \in Vcpu : thread[v] = "done"
  /\ UNCHANGED vars

Next == Type \/ StdinStep \/ Done \/ \E v \in Vcpu : VcpuStep(v)

Spec == Init /\ [][Next]_vars

\* The host schedules every thread; the user need not type.
Fairness == WF_vars(StdinStep) /\ \A v \in Vcpu : WF_vars(VcpuStep(v))

FairSpec == Spec /\ Fairness

-----------------------------------------------------------------------------
(* Properties.                                                             *)

(* The contexts hold what their C types and the conversions allow: the     *)
(* result of pop is -1 or an unsigned char.                                *)
TypeOK ==
  /\ head \in KB!Index /\ tail \in KB!Index /\ buffer \in [KB!Index -> Typed \cup {0}]
  /\ pending_getchar \in [Vcpu -> {0, 1}]
  /\ getchar_result \in [Vcpu -> Byte \cup {KB!Empty}]
  /\ running \in [Vcpu -> BOOLEAN]
  /\ thread \in [Vcpu -> {"loop", "done"}]
  /\ \A v \in Vcpu : gpc[v] \in 1 .. Len(program[v]) + 1

\* Whether a guest can tell a character from "empty": not 0xFF.
Visible(ch) == SignExtend(ch) # -1

\* The character vCPU v has taken from the ring and its guest has not read.
InFlight(v) ==
  IF pending_getchar[v] = 1 /\ getchar_result[v] # KB!Empty /\ Visible(getchar_result[v])
  THEN <<SignExtend(getchar_result[v])>> ELSE << >>

\* What v took, in the order p of all that was taken, as its guest sees it.
Taken(p, v) ==
  LET seen[n \in 0 .. Len(p)] ==
        IF n = 0 THEN << >>
        ELSE IF p[n][1] = v /\ Visible(p[n][2]) THEN Append(seen[n - 1], SignExtend(p[n][2]))
        ELSE seen[n - 1]
  IN seen[Len(p)]

(* Every character that entered the ring is in exactly one place: returned *)
(* to one guest, held between that guest's OUT and IN, or still buffered;  *)
(* each guest sees its characters in the order they were typed, whatever   *)
(* the threads' interleaving.  The only exception is byte 0xFF, which      *)
(* getchar() takes for "nothing typed" (user.c) and swallows.              *)
NothingLostOrRepeated ==
  /\ accepted = [n \in DOMAIN popped |-> popped[n][2]] \o KB!Contents
  /\ \A v \in Vcpu : Taken(popped, v) = got[v] \o InFlight(v)

(* A vCPU thread ends because its guest asked for it (HC_EXIT, HLT), never *)
(* because the VMM rejected a hypercall.                                   *)
CleanExit == \A v \in Vcpu : thread[v] = "done" => ~running[v]

Reads(v) ==
  InGuest(v) /\ \E n \in DOMAIN program[v] : n >= gpc[v] /\ program[v][n].op = "IN"

(* A getchar() blocks only while there is nothing to read: a buffered      *)
(* character (other than 0xFF) is returned to a guest, unless no guest is  *)
(* going to read any more.                                                 *)
BufferedCharDelivered ==
  \A ch \in Typed \ {255} :
    (ch \in Range(KB!Contents))
      ~> \/ \E v \in Vcpu : SignExtend(ch) \in Range(got[v])
         \/ \A v \in Vcpu : ~Reads(v)
=============================================================================
