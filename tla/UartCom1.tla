----------------------------- MODULE UartCom1 -----------------------------
(***************************************************************************)
(* The serial console of a Linux guest: the 16550 that uart_write and      *)
(* uart_read of src/kvm-vmm-x86/src/main.c emulate on COM1, with interrupt *)
(* 4 as its line and the keyboard ring as its receiver.                    *)
(*                                                                         *)
(*   stdin thread  pushes what was typed, then pulses IRQ 4 once; it may   *)
(*                 be missing, for main() goes on without it               *)
(*   vCPU thread   handles one register access of the guest per exit       *)
(*   guest         external: an interrupt-driven driver.  Its handler      *)
(*                 drains the receiver, sends one character if the         *)
(*                 transmitter interrupt is on, and repeats until IIR      *)
(*                 reports nothing pending                                 *)
(*   KVM           external: an edge on IRQ 4 stays latched until the      *)
(*                 guest takes the interrupt                               *)
(***************************************************************************)
EXTENDS Integers, Sequences, SequencesExt

CONSTANTS
  Size,     \* KEYBOARD_BUFFER_SIZE
  Inputs,   \* what may be typed: sequences of bytes without repetition
  Output,   \* what the guest's programs write to the console
  ReadMax   \* sizeof(buf) of the stdin thread

Byte == 0..255

Typed == UNION {Range(s) : s \in Inputs}

ASSUME SizeAssumption == Size \in Nat /\ Size > 1
ASSUME ReadMaxAssumption == ReadMax \in Nat /\ ReadMax > 0
ASSUME InputsAssumption == \A s \in Inputs : s \in Seq(Byte) /\ IsInjective(s)
ASSUME OutputAssumption == Output \in Seq(Byte)

VARIABLES
  buffer, head, tail,  \* keyboard_buffer
  tty,                 \* typed, not yet read by the VMM
  buf,                 \* read by the stdin thread, not yet pushed
  stdin,               \* the stdin thread: "select" or "push", "none" if not created
  linux_serial_input_enabled,  \* whether the UART may raise interrupts at all
  uart0,               \* the registers ier, lcr, mcr, dll, dlh
  irq4,                \* KVM: an edge on IRQ 4 is latched
  driver,              \* the guest driver: startup, idle, or a register of its handler
  setup,               \* its next start-up write
  txq,                 \* the driver's transmit queue
  unwritten,           \* what the guest's programs have still to write
  received,            \* history: what the driver read from RBR
  accepted,            \* history: characters stored in the ring
  printed              \* history: characters written to stdout

ringvars == <<buffer, head, tail>>
stdinvars == <<tty, buf, stdin, accepted, linux_serial_input_enabled>>
devvars == <<uart0, irq4, printed>>
guestvars == <<driver, setup, txq, unwritten, received>>
vars == <<ringvars, stdinvars, devvars, guestvars>>

KB == INSTANCE KeyboardBuffer WITH Chars <- Typed, ret <- -1

\* Before the vCPU starts, main() sets the flag and creates the thread; if that
\* fails it clears the flag, warns and goes on.  The flag then stays until the
\* vCPU has ended.
StartStdinThread ==
  /\ stdin \in {"select", "none"}
  /\ linux_serial_input_enabled = (stdin = "select")

Init ==
  /\ KB!RingInit /\ StartStdinThread
  /\ tty \in Inputs /\ buf = << >> /\ accepted = << >>
  /\ uart0 = [ier |-> 0, lcr |-> 3, mcr |-> 0, dll |-> 1, dlh |-> 0]
  /\ irq4 = FALSE /\ printed = << >>
  /\ driver = "startup" /\ setup = 1 /\ txq = << >> /\ unwritten = Output /\ received = << >>

-----------------------------------------------------------------------------
(* The device.  An access is one exit of the vCPU.                         *)

\* ier & 0x01, ier & 0x02, lcr & 0x80
RxInterrupt(ier) == ier % 2 = 1
TxInterrupt(ier) == (ier \div 2) % 2 = 1
Dlab == uart0.lcr >= 128

\* pulse_irq_line(4): up and down, latched by KVM until the guest takes it.
PulseIrq4(condition) == irq4' = (irq4 \/ condition)

\* THR.  If it is enabled, a transmitter interrupt follows at once: putchar
\* never waits.
WriteThr(data) ==
  /\ printed' = Append(printed, data)
  /\ PulseIrq4(linux_serial_input_enabled /\ TxInterrupt(uart0.ier))
  /\ UNCHANGED uart0

\* Mutant: enabling the transmitter interrupt does not raise it.
WriteIerWithoutIrq(data) ==
  /\ uart0' = [uart0 EXCEPT !.ier = data]
  /\ UNCHANGED <<irq4, printed>>

WriteIer(data) ==
  /\ uart0' = [uart0 EXCEPT !.ier = data]
  /\ PulseIrq4(linux_serial_input_enabled /\ TxInterrupt(data))
  /\ UNCHANGED printed

\* Mutant: the registers are kept as signed characters.
LatchSigned(register, data) ==
  /\ uart0' = [uart0 EXCEPT ![register] = IF data > 127 THEN data - 256 ELSE data]
  /\ UNCHANGED <<irq4, printed>>

Latch(register, data) ==
  uart0' = [uart0 EXCEPT ![register] = data] /\ UNCHANGED <<irq4, printed>>

\* Mutant: the divisor latch is ignored on writes.
WriteWithoutDlab(offset, data) ==
  CASE offset = 0 -> WriteThr(data)
    [] offset = 1 -> WriteIer(data)
    [] offset = 3 -> Latch("lcr", data)
    [] offset = 4 -> Latch("mcr", data)
    [] OTHER -> UNCHANGED devvars

uart_write(offset, data) ==
  CASE offset = 0 /\ Dlab -> Latch("dll", data)
    [] offset = 0 /\ ~Dlab -> WriteThr(data)
    [] offset = 1 /\ Dlab -> Latch("dlh", data)
    [] offset = 1 /\ ~Dlab -> WriteIer(data)
    [] offset = 3 -> Latch("lcr", data)
    [] offset = 4 -> Latch("mcr", data)
    [] OTHER -> UNCHANGED devvars

\* Mutant: THR Empty is reported whether or not its interrupt is enabled.
IirAlwaysThrEmpty ==
  IF KB!keyboard_buffer_has_data /\ RxInterrupt(uart0.ier) THEN 4 ELSE 2

\* Received data before THR empty before nothing pending.
Iir ==
  CASE KB!keyboard_buffer_has_data /\ RxInterrupt(uart0.ier) -> 4
    [] ~(KB!keyboard_buffer_has_data /\ RxInterrupt(uart0.ier)) /\ TxInterrupt(uart0.ier) -> 2
    [] OTHER -> 1

\* Mutant: Data Ready stays on.
LsrAlwaysReady == 97

\* THR empty and transmitter idle always, Data Ready from the ring.
Lsr == 96 + (IF KB!keyboard_buffer_has_data THEN 1 ELSE 0)

\* RBR: an empty ring reads as zero.
ReadRbr(data) ==
  \E ch \in Typed \cup {KB!Empty} :
    /\ KB!keyboard_buffer_pop(ch)
    /\ data = (IF ch = KB!Empty THEN 0 ELSE ch)

\* The access of a register that is answered with data.
uart_read(offset, data) ==
  \/ /\ offset = 0 /\ ~Dlab /\ ReadRbr(data)
  \/ /\ ~(offset = 0 /\ ~Dlab)
     /\ data = CASE offset = 0 -> uart0.dll
                 [] offset = 1 -> (IF Dlab THEN uart0.dlh ELSE uart0.ier)
                 [] offset = 2 -> Iir
                 [] offset = 3 -> uart0.lcr
                 [] offset = 4 -> uart0.mcr
                 [] offset = 5 -> Lsr
                 [] OTHER -> 0
     /\ UNCHANGED ringvars

-----------------------------------------------------------------------------
(* The stdin thread.                                                       *)

\* select reports input and read takes what is there, up to sizeof(buf).
StdinRead ==
  /\ stdin = "select" /\ tty # << >>
  /\ \E n \in 1 .. Len(tty) :
       /\ n <= ReadMax
       /\ buf' = SubSeq(tty, 1, n) /\ tty' = SubSeq(tty, n + 1, Len(tty))
  /\ stdin' = "push"
  /\ UNCHANGED <<ringvars, accepted, linux_serial_input_enabled, devvars, guestvars>>

StdinPush ==
  /\ stdin = "push" /\ buf # << >>
  /\ KB!keyboard_buffer_push(Head(buf))
  /\ buf' = Tail(buf)
  /\ accepted' = IF head' # head THEN Append(accepted, Head(buf)) ELSE accepted
  /\ UNCHANGED <<tty, stdin, linux_serial_input_enabled, devvars, guestvars>>

\* Mutant: the pulse is forgotten.
NoPulse ==
  /\ stdin = "push" /\ buf = << >>
  /\ stdin' = "select"
  /\ UNCHANGED <<ringvars, tty, buf, accepted, linux_serial_input_enabled, devvars, guestvars>>

\* One pulse for the whole buf.
StdinPulse ==
  /\ stdin = "push" /\ buf = << >>
  /\ PulseIrq4(linux_serial_input_enabled) /\ stdin' = "select"
  /\ UNCHANGED <<ringvars, tty, buf, accepted, linux_serial_input_enabled, uart0, printed, guestvars>>

-----------------------------------------------------------------------------
(* The guest: the driver starts up, then serves its interrupt.             *)

\* 8N1 at the divisor 1, modem control, then the receiver interrupt on.
StartupWrites ==
  <<[offset |-> 3, data |-> 131], [offset |-> 0, data |-> 1], [offset |-> 1, data |-> 0],
    [offset |-> 3, data |-> 3], [offset |-> 4, data |-> 8], [offset |-> 1, data |-> 1]>>

DriverStartup ==
  /\ driver = "startup"
  /\ uart_write(StartupWrites[setup].offset, StartupWrites[setup].data)
  /\ setup' = setup + 1
  /\ driver' = IF setup = Len(StartupWrites) THEN "idle" ELSE "startup"
  /\ UNCHANGED <<ringvars, stdinvars, txq, unwritten, received>>

\* A program writes to the console: the character is queued and the
\* transmitter interrupt enabled.
DriverStartTx ==
  /\ driver = "idle" /\ unwritten # << >>
  /\ txq' = Append(txq, Head(unwritten)) /\ unwritten' = Tail(unwritten)
  /\ uart_write(1, 3)
  /\ UNCHANGED <<ringvars, stdinvars, setup, driver, received>>

DriverInterrupt ==
  /\ driver = "idle" /\ irq4
  /\ irq4' = FALSE /\ driver' = "IIR"
  /\ UNCHANGED <<ringvars, stdinvars, setup, uart0, printed, txq, unwritten, received>>

DriverReadIir ==
  /\ driver = "IIR"
  /\ \E data \in Byte :
       /\ uart_read(2, data)
       /\ driver' = IF data = 1 THEN "idle" ELSE "LSR"
  /\ UNCHANGED <<stdinvars, setup, devvars, txq, unwritten, received>>

\* Data Ready sends it to RBR, otherwise it looks at the transmitter.
DriverReadLsr ==
  /\ driver = "LSR"
  /\ \E data \in Byte :
       /\ uart_read(5, data)
       /\ driver' = IF data % 2 = 1 THEN "RBR" ELSE "THR"
  /\ UNCHANGED <<stdinvars, setup, devvars, txq, unwritten, received>>

DriverReadRbr ==
  /\ driver = "RBR"
  /\ \E data \in Byte :
       uart_read(0, data) /\ received' = Append(received, data)
  /\ driver' = "LSR"
  /\ UNCHANGED <<stdinvars, setup, devvars, txq, unwritten>>

\* One character per turn; with none left the transmitter interrupt goes off.
DriverTransmit ==
  /\ driver = "THR"
  /\ \/ txq # << >> /\ uart_write(0, Head(txq)) /\ txq' = Tail(txq)
     \/ txq = << >> /\ uart_write(1, 1) /\ UNCHANGED txq
  /\ driver' = "IIR"
  /\ UNCHANGED <<ringvars, stdinvars, setup, unwritten, received>>

-----------------------------------------------------------------------------
StdinStep == StdinRead \/ StdinPush \/ StdinPulse

GuestStep ==
  \/ DriverStartup \/ DriverStartTx \/ DriverInterrupt
  \/ DriverReadIir \/ DriverReadLsr \/ DriverReadRbr \/ DriverTransmit

\* Nothing left to type (or nobody to read it), to write or to serve.
Quiet ==
  /\ stdin = "none" \/ (stdin = "select" /\ tty = << >>)
  /\ driver = "idle" /\ ~irq4 /\ unwritten = << >>
  /\ UNCHANGED vars

Next == StdinStep \/ GuestStep \/ Quiet

Spec == Init /\ [][Next]_vars

\* The host schedules both threads; a driver that is entered goes on.  The
\* interrupt is taken at latest when no program writes any more.
Fairness == WF_vars(StdinStep) /\ WF_vars(GuestStep)

FairSpec == Spec /\ Fairness

-----------------------------------------------------------------------------
(* Properties.                                                             *)

TypeOK ==
  /\ head \in KB!Index /\ tail \in KB!Index /\ buffer \in [KB!Index -> Typed \cup {0}]
  /\ uart0 \in [{"ier", "lcr", "mcr", "dll", "dlh"} -> Byte]
  /\ irq4 \in BOOLEAN /\ linux_serial_input_enabled \in BOOLEAN
  /\ stdin \in {"none", "select", "push"}
  /\ driver \in {"startup", "idle", "IIR", "LSR", "RBR", "THR"}
  /\ setup \in 1 .. Len(StartupWrites) + 1

(* What the driver read from RBR, followed by what is still in the ring,   *)
(* is what was stored in it: no register access takes, repeats or invents  *)
(* a character, whatever the stdin thread does between LSR and RBR.        *)
ReceiverKeepsOrder == received \o KB!Contents = accepted

(* stdout shows what the guest's programs wrote and nothing else: the      *)
(* divisor latch never reaches the terminal.                               *)
TransmitterKeepsOrder == printed \o txq \o unwritten = Output

(* No wake-up is lost.  While the driver is not in its handler, a          *)
(* character in the ring has its pulse latched or still to come from the   *)
(* stdin thread; and one to transmit has its interrupt latched, provided   *)
(* that main() could create the stdin thread: uart_write raises no         *)
(* interrupt without it.                                                   *)
NoLostWakeup ==
  /\ driver \in {"startup", "idle"} /\ KB!keyboard_buffer_has_data => irq4 \/ stdin = "push"
  /\ linux_serial_input_enabled /\ driver = "idle" /\ txq # << >> => irq4

InHandler == driver \in {"IIR", "LSR", "RBR", "THR"}

\* What the handler has before it: three accesses for a character of the
\* ring, and for one to transmit or the transmitter interrupt to turn off; up
\* to seven for one that is still to be pushed, which may also send it round
\* once more; and the way from where it is to the end of the loop.
Work ==
  LET pending == KB!keyboard_buffer_has_data
      tx == TxInterrupt(uart0.ier)
  IN 3 * (KB!Count + Len(txq) + (IF tx THEN 1 ELSE 0)) + 7 * (Len(buf) + Len(tty))
     + CASE driver = "IIR" -> (IF pending \/ tx THEN 4 ELSE 1)
         [] driver = "LSR" -> 3
         [] driver = "RBR" -> 2
         [] driver = "THR" -> (IF pending THEN 5 ELSE 2)
         [] OTHER -> 0

(* The handler cannot go round for ever: each of its accesses leaves less  *)
(* work, and what the stdin thread does meanwhile never adds any.  A       *)
(* device that reports an interrupt the driver cannot serve, or keeps Data *)
(* Ready on, is an endless loop in the guest's kernel.                     *)
HandlerProgress ==
  [][InHandler => Work' <= Work /\ (driver' # driver => Work' < Work)]_vars

Listening == RxInterrupt(uart0.ier) /\ ~Dlab

(* Once the driver enabled the receiver interrupt, a character that is     *)
(* pushed is read without any further key press: the one pulse after the   *)
(* pushes is enough, however the driver's reads interleave with them.      *)
ReceiverWakesDriver ==
  \A ch \in Typed :
    (ch \in Range(buf) /\ Listening) ~> (ch \in Range(received) \/ ch \notin Range(buf \o accepted))

(* If the stdin thread could be created, everything written to the console *)
(* is printed: the transmitter interrupt that uart_write raises keeps the  *)
(* driver going.                                                           *)
TransmitterDrains == linux_serial_input_enabled => <>[](printed = Output)

(* The handler always comes back: IIR reports "nothing pending" again.     *)
HandlerReturns == []<>(driver = "idle")
=============================================================================
