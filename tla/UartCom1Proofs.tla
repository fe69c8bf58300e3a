-------------------------- MODULE UartCom1Proofs --------------------------
(***************************************************************************)
(* Proofs about UartCom1, for every ring size, every input and every       *)
(* output: the emulated 16550 neither loses, repeats nor invents a         *)
(* character in either direction.                                          *)
(***************************************************************************)
EXTENDS UartCom1, SequenceLemmas, TLAPS

\* What KeyboardBufferProofs proves about the ring, for this ring.
KBP == INSTANCE KeyboardBufferProofs WITH Chars <- Typed, ret <- -1

(* Typed characters are bytes.                                             *)
LEMMA TypedAreBytes ==
  /\ Typed \subseteq Byte
  /\ \A s \in Inputs : s \in Seq(Typed)
<1>1. ASSUME NEW s \in Inputs
      PROVE  Range(s) \subseteq Byte /\ s \in Seq(Range(s)) /\ Range(s) \subseteq Typed
  BY InputsAssumption, SeqOfOwnRange DEF Typed
<1>2. QED
  BY <1>1, SeqMonotonic DEF Typed

(* The assumptions under which KeyboardBufferProofs proves its lemmas.     *)
LEMMA RingAssumptions == Size \in Nat /\ Size > 1 /\ Typed \subseteq 0..255
  BY SizeAssumption, TypedAreBytes DEF Byte

-----------------------------------------------------------------------------
(* The inductive invariant.                                                *)

\* Typed characters go through the receiver, bytes through the transmitter.
QueuesOK ==
  /\ tty \in Seq(Typed) /\ buf \in Seq(Typed) /\ received \in Seq(Typed)
  /\ printed \in Seq(Byte) /\ txq \in Seq(Byte) /\ unwritten \in Seq(Byte)

(* The divisor latch is open between the first and the fourth write of the *)
(* start-up and never again, so offset 0 is a data register outside it.    *)
LatchClosed ==
  IF driver = "startup" THEN setup \in 1..6 /\ (Dlab <=> setup \in 2..4)
  ELSE setup = 7 /\ ~Dlab

(* Data Ready stays true until the driver reads RBR: pushes only add, and  *)
(* nobody else pops.                                                       *)
ReadReady == driver = "RBR" => head # tail

UartInv ==
  /\ KBP!TypeOK /\ TypeOK /\ QueuesOK /\ LatchClosed /\ ReadReady
  /\ ReceiverKeepsOrder /\ TransmitterKeepsOrder

LEMMA InvInit == Init => UartInv
<1> SUFFICES ASSUME Init PROVE UartInv
  OBVIOUS
<1>1. head = 0 /\ tail = 0 /\ buffer = [k \in 0 .. Size - 1 |-> 0]
  BY DEF Init, KB!RingInit, KB!Index
<1>2. KBP!TypeOK
  BY <1>1, SizeAssumption DEF KBP!TypeOK, KBP!Index, KBP!Count, KBP!Empty
<1>3. TypeOK
  <2>1. uart0 \in [{"ier", "lcr", "mcr", "dll", "dlh"} -> Byte]
    BY DEF Init, Byte
  <2>2. setup \in 1 .. Len(StartupWrites) + 1
    BY DEF Init, StartupWrites
  <2>3. head \in KB!Index /\ tail \in KB!Index /\ buffer \in [KB!Index -> Typed \cup {0}]
    BY <1>1, SizeAssumption DEF KB!Index
  <2>4. linux_serial_input_enabled \in BOOLEAN /\ stdin \in {"none", "select", "push"}
    BY Zenon DEF Init, StartStdinThread
  <2>5. QED
    BY <2>1, <2>2, <2>3, <2>4, Zenon DEF Init, TypeOK
<1>4. QueuesOK
  BY TypedAreBytes, OutputAssumption DEF Init, QueuesOK
<1>5. LatchClosed /\ ReadReady
  BY DEF Init, LatchClosed, ReadReady, Dlab
<1>6. KB!Contents = << >>
  BY <1>1 DEF KB!Contents, KB!Count
<1>7. ReceiverKeepsOrder
  BY <1>6 DEF Init, ReceiverKeepsOrder
<1>8. TransmitterKeepsOrder
  BY OutputAssumption DEF Init, TransmitterKeepsOrder
<1>9. QED
  BY <1>2, <1>3, <1>4, <1>5, <1>7, <1>8 DEF UartInv

(* The lemmas of KeyboardBufferProofs in terms of this module.             *)
LEMMA RingUnchanged ==
  ASSUME KBP!TypeOK, UNCHANGED ringvars
  PROVE  KBP!TypeOK' /\ KB!Contents' = KB!Contents
  BY DEF ringvars, KBP!TypeOK, KBP!Count, KBP!Slot, KB!Contents, KB!Count, KB!Slot

LEMMA SameContents == KB!Contents = KBP!Contents /\ KB!Contents' = KBP!Contents'
  BY DEF KB!Contents, KB!Count, KB!Slot, KBP!Contents, KBP!Count, KBP!Slot

LEMMA RingPush ==
  ASSUME KBP!TypeOK, NEW ch \in Typed, KB!keyboard_buffer_push(ch)
  PROVE  /\ KBP!TypeOK'
         /\ KB!Contents' = IF head' # head THEN Append(KB!Contents, ch) ELSE KB!Contents
         /\ head # tail => head' # tail'
<1>1. KBP!keyboard_buffer_push(ch)
  BY DEF KB!keyboard_buffer_push, KBP!keyboard_buffer_push
<1>2. KBP!RingOK'
  BY <1>1, KBP!PushKeepsRing, RingAssumptions
<1>3. KBP!TypeOK'
  BY <1>2 DEF KBP!RingOK, KBP!TypeOK, KBP!Empty
<1>4. KBP!Contents' = IF head' # head THEN Append(KBP!Contents, ch) ELSE KBP!Contents
  BY <1>1, <1>3, KBP!PushEffect, RingAssumptions
<1>5. head # tail => head' # tail'
  BY DEF KB!keyboard_buffer_push
<1>6. QED
  BY <1>3, <1>4, <1>5, SameContents

LEMMA RingPop ==
  ASSUME KBP!TypeOK, NEW ch, KB!keyboard_buffer_pop(ch)
  PROVE  /\ KBP!TypeOK'
         /\ \/ head = tail /\ ch = KB!Empty /\ KB!Contents' = KB!Contents
            \/ /\ head # tail /\ KB!Contents # << >> /\ KB!Contents \in Seq(Typed)
               /\ ch \in Typed /\ ch = Head(KB!Contents) /\ KB!Contents' = Tail(KB!Contents)
<1>1. KBP!keyboard_buffer_pop(ch)
  BY DEF KB!keyboard_buffer_pop, KBP!keyboard_buffer_pop, KB!Empty, KBP!Empty
<1>2. KBP!RingOK'
  BY <1>1, KBP!PopKeepsRing, RingAssumptions
<1>3. KBP!TypeOK'
  BY <1>2 DEF KBP!RingOK, KBP!TypeOK, KBP!Empty
<1>4. \/ head = tail /\ ch = KBP!Empty /\ KBP!Contents' = KBP!Contents
      \/ /\ head # tail /\ KBP!Contents # << >> /\ KBP!Contents \in Seq(Typed)
         /\ ch \in Typed /\ ch = Head(KBP!Contents) /\ KBP!Contents' = Tail(KBP!Contents)
  BY <1>1, <1>3, KBP!PopEffect, RingAssumptions
<1>5. QED
  BY <1>3, <1>4, SameContents DEF KB!Empty, KBP!Empty

(* The part of TypeOK that is about the ring follows from the ring's own.  *)
LEMMA RingTypes ==
  ASSUME KBP!TypeOK'
  PROVE  (head \in KB!Index /\ tail \in KB!Index /\ buffer \in [KB!Index -> Typed \cup {0}])'
  BY DEF KBP!TypeOK, KBP!Index, KB!Index

(* The receiver's order, when the driver's side of it does not move.       *)
LEMMA ReceiverUntouched ==
  ASSUME ReceiverKeepsOrder, KB!Contents' = KB!Contents, UNCHANGED <<received, accepted>>
  PROVE  ReceiverKeepsOrder'
  BY DEF ReceiverKeepsOrder

LEMMA StdinKeeps == UartInv /\ StdinStep => UartInv'
<1> SUFFICES ASSUME UartInv, StdinStep PROVE UartInv'
  OBVIOUS
<1> USE DEF UartInv
<1>1. CASE StdinRead
  <2>1. PICK n \in 1 .. Len(tty) :
          buf' = SubSeq(tty, 1, n) /\ tty' = SubSeq(tty, n + 1, Len(tty))
    BY <1>1 DEF StdinRead
  <2>2. tty \in Seq(Typed) /\ Len(tty) \in Nat
    BY DEF QueuesOK
  <2>3. buf' \in Seq(Typed) /\ tty' \in Seq(Typed)
    BY <2>1, <2>2, SubSeqProperties
  <2>4. KBP!TypeOK' /\ KB!Contents' = KB!Contents
    BY <1>1, RingUnchanged DEF StdinRead
  <2>5. UNCHANGED <<head, tail, accepted, linux_serial_input_enabled, uart0, irq4, printed, driver, setup, txq, unwritten, received>>
    BY <1>1 DEF StdinRead, ringvars, devvars, guestvars
  <2>6. TypeOK'
    BY <1>1, <2>4, <2>5, RingTypes, Zenon DEF StdinRead, TypeOK
  <2>7. QueuesOK'
    BY <2>3, <2>5 DEF QueuesOK
  <2>8. LatchClosed' /\ ReadReady' /\ TransmitterKeepsOrder'
    BY <2>5 DEF LatchClosed, Dlab, ReadReady, TransmitterKeepsOrder
  <2>9. QED
    BY <2>4, <2>5, <2>6, <2>7, <2>8, ReceiverUntouched
<1>2. CASE StdinPush
  <2>1. Head(buf) \in Typed /\ Tail(buf) \in Seq(Typed)
    BY <1>2, HeadTailProperties DEF StdinPush, QueuesOK
  <2>2. /\ KBP!TypeOK'
        /\ KB!Contents' = IF head' # head THEN Append(KB!Contents, Head(buf)) ELSE KB!Contents
        /\ head # tail => head' # tail'
    BY <1>2, <2>1, RingPush DEF StdinPush
  <2>3. UNCHANGED <<tty, stdin, linux_serial_input_enabled, uart0, irq4, printed, driver, setup, txq, unwritten, received>>
    BY <1>2 DEF StdinPush, devvars, guestvars
  <2>4. TypeOK'
    BY <2>2, <2>3, RingTypes, Zenon DEF TypeOK
  <2>5. QueuesOK'
    BY <1>2, <2>1, <2>3 DEF StdinPush, QueuesOK
  <2>6. LatchClosed' /\ ReadReady' /\ TransmitterKeepsOrder'
    BY <2>2, <2>3 DEF LatchClosed, Dlab, ReadReady, TransmitterKeepsOrder
  <2>7. ReceiverKeepsOrder'
    <3>1. KB!Contents \in Seq(Typed)
      BY KBP!ContentsFacts, SameContents, RingAssumptions
    <3>2. received \o Append(KB!Contents, Head(buf)) = Append(received \o KB!Contents, Head(buf))
      BY <2>1, <3>1, AppendMoves DEF QueuesOK
    <3>3. QED
      BY <1>2, <2>2, <2>3, <3>2 DEF StdinPush, ReceiverKeepsOrder
  <2>8. QED
    BY <2>2, <2>4, <2>5, <2>6, <2>7
<1>3. CASE StdinPulse
  <2>1. UNCHANGED <<head, tail, tty, buf, accepted, linux_serial_input_enabled, uart0, printed, driver, setup, txq, unwritten, received>>
    BY <1>3 DEF StdinPulse, ringvars, guestvars
  <2>2. KBP!TypeOK' /\ KB!Contents' = KB!Contents
    BY <1>3, RingUnchanged DEF StdinPulse
  <2>3. irq4' \in BOOLEAN
    BY <1>3, Zenon DEF StdinPulse, PulseIrq4, TypeOK
  <2>4. TypeOK'
    BY <1>3, <2>1, <2>2, <2>3, RingTypes, Zenon DEF StdinPulse, TypeOK
  <2>5. QueuesOK' /\ LatchClosed' /\ ReadReady' /\ TransmitterKeepsOrder'
    BY <2>1 DEF QueuesOK, LatchClosed, Dlab, ReadReady, TransmitterKeepsOrder
  <2>6. QED
    BY <2>1, <2>2, <2>4, <2>5, ReceiverUntouched
<1>4. QED
  BY <1>1, <1>2, <1>3 DEF StdinStep

\* The names of the registers that are kept.
Registers == {"ier", "lcr", "mcr", "dll", "dlh"}

(* A write that is latched changes one register.                           *)
LEMMA LatchEffect ==
  ASSUME uart0 \in [Registers -> Byte], NEW r \in Registers, NEW data \in Byte, Latch(r, data)
  PROVE  /\ uart0' \in [Registers -> Byte] /\ UNCHANGED <<irq4, printed>>
         /\ uart0'.lcr = IF r = "lcr" THEN data ELSE uart0.lcr
  BY DEF Latch, Registers

(* Offset 1 with the divisor latch closed.                                 *)
LEMMA WriteIerEffect ==
  ASSUME uart0 \in [Registers -> Byte], irq4 \in BOOLEAN, ~Dlab, NEW data \in Byte, uart_write(1, data)
  PROVE  /\ uart0' \in [Registers -> Byte] /\ irq4' \in BOOLEAN
         /\ uart0'.lcr = uart0.lcr /\ UNCHANGED printed
<1>1. WriteIer(data)
  BY DEF uart_write
<1>2. irq4' \in BOOLEAN
  BY <1>1, Zenon DEF WriteIer, PulseIrq4
<1>3. QED
  BY <1>1, <1>2 DEF WriteIer, Registers

(* Offset 0 with the divisor latch closed prints the character.            *)
LEMMA WriteThrEffect ==
  ASSUME irq4 \in BOOLEAN, ~Dlab, NEW data, uart_write(0, data)
  PROVE  irq4' \in BOOLEAN /\ UNCHANGED uart0 /\ printed' = Append(printed, data)
<1>1. WriteThr(data)
  BY DEF uart_write
<1>2. QED
  BY <1>1, Zenon DEF WriteThr, PulseIrq4

(* The start-up never prints: its writes to offset 0 and 1 find the latch  *)
(* open, except the last one, which goes to IER.                           *)
LEMMA StartupEffect ==
  ASSUME TypeOK, LatchClosed, DriverStartup
  PROVE  /\ uart0' \in [Registers -> Byte] /\ irq4' \in BOOLEAN /\ UNCHANGED printed
         /\ LatchClosed' /\ driver' \in {"startup", "idle"} /\ setup' \in 1..7
<1> DEFINE w == StartupWrites[setup]
           Out == uart0' \in [Registers -> Byte] /\ irq4' \in BOOLEAN /\ UNCHANGED printed
<1>1. /\ setup \in 1..6 /\ (Dlab <=> setup \in 2..4)
      /\ uart0 \in [Registers -> Byte] /\ irq4 \in BOOLEAN
      /\ uart_write(w.offset, w.data)
  BY DEF DriverStartup, LatchClosed, TypeOK, Registers
<1>2. setup' = setup + 1 /\ driver' = IF setup = 6 THEN "idle" ELSE "startup"
  BY DEF DriverStartup, StartupWrites
<1>3. 131 \in Byte /\ 0 \in Byte /\ 1 \in Byte /\ 3 \in Byte /\ 8 \in Byte
  BY DEF Byte
<1>4. Out /\ uart0'.lcr = IF setup = 1 THEN 131 ELSE IF setup = 4 THEN 3 ELSE uart0.lcr
  <2>1. CASE setup = 1
    <3>1. Latch("lcr", 131)
      BY <1>1, <2>1 DEF StartupWrites, uart_write
    <3>2. QED
      BY <1>1, <1>3, <2>1, <3>1, LatchEffect DEF Registers
  <2>2. CASE setup = 2
    <3>1. Latch("dll", 1)
      BY <1>1, <2>2 DEF StartupWrites, uart_write
    <3>2. QED
      BY <1>1, <1>3, <2>2, <3>1, LatchEffect DEF Registers
  <2>3. CASE setup = 3
    <3>1. Latch("dlh", 0)
      BY <1>1, <2>3 DEF StartupWrites, uart_write
    <3>2. QED
      BY <1>1, <1>3, <2>3, <3>1, LatchEffect DEF Registers
  <2>4. CASE setup = 4
    <3>1. Latch("lcr", 3)
      BY <1>1, <2>4 DEF StartupWrites, uart_write
    <3>2. QED
      BY <1>1, <1>3, <2>4, <3>1, LatchEffect DEF Registers
  <2>5. CASE setup = 5
    <3>1. Latch("mcr", 8)
      BY <1>1, <2>5 DEF StartupWrites, uart_write
    <3>2. QED
      BY <1>1, <1>3, <2>5, <3>1, LatchEffect DEF Registers
  <2>6. CASE setup = 6
    <3>1. uart_write(1, 1) /\ ~Dlab
      BY <1>1, <2>6 DEF StartupWrites
    <3>2. QED
      BY <1>1, <1>3, <2>6, <3>1, WriteIerEffect
  <2>7. QED
    BY <1>1, <2>1, <2>2, <2>3, <2>4, <2>5, <2>6
<1>5. Dlab' <=> setup' \in 2..4
  BY <1>1, <1>2, <1>4 DEF Dlab
<1>6. LatchClosed'
  BY <1>1, <1>2, <1>5 DEF LatchClosed
<1>7. QED
  BY <1>1, <1>2, <1>4, <1>6

(* Every step of the driver, one access of the device at a time.           *)
LEMMA GuestKeeps == UartInv /\ GuestStep => UartInv'
<1> SUFFICES ASSUME UartInv, GuestStep PROVE UartInv'
  OBVIOUS
<1> USE DEF UartInv
<1>0. uart0 \in [Registers -> Byte] /\ irq4 \in BOOLEAN /\ 1 \in Byte /\ 3 \in Byte
      /\ Len(StartupWrites) = 6
  BY DEF TypeOK, Registers, Byte, StartupWrites
<1>1. CASE DriverStartup
  <2>1. /\ uart0' \in [Registers -> Byte] /\ irq4' \in BOOLEAN /\ UNCHANGED printed
        /\ LatchClosed' /\ driver' \in {"startup", "idle"} /\ setup' \in 1..7
    BY <1>1, StartupEffect
  <2>2. UNCHANGED <<head, tail, tty, buf, stdin, accepted, linux_serial_input_enabled, txq, unwritten, received>>
    BY <1>1 DEF DriverStartup, ringvars, stdinvars
  <2>3. KBP!TypeOK' /\ KB!Contents' = KB!Contents
    BY <1>1, RingUnchanged DEF DriverStartup
  <2>4. TypeOK'
    <3>1. setup' \in 1 .. Len(StartupWrites) + 1
      BY <1>0, <2>1
    <3>2. QED
      BY <2>1, <2>2, <2>3, <3>1, RingTypes, Zenon DEF TypeOK, Registers
  <2>5. QueuesOK' /\ ReadReady' /\ TransmitterKeepsOrder'
    BY <2>1, <2>2 DEF QueuesOK, ReadReady, TransmitterKeepsOrder
  <2>6. QED
    BY <2>1, <2>2, <2>3, <2>4, <2>5, ReceiverUntouched
<1>2. CASE DriverStartTx
  <2>0. driver = "idle" /\ driver' = "idle" /\ ~Dlab
    BY <1>2 DEF DriverStartTx, LatchClosed
  <2>1. /\ uart0' \in [Registers -> Byte] /\ irq4' \in BOOLEAN
        /\ uart0'.lcr = uart0.lcr /\ UNCHANGED printed
    BY <1>0, <1>2, <2>0, WriteIerEffect DEF DriverStartTx
  <2>2. UNCHANGED <<head, tail, tty, buf, stdin, accepted, linux_serial_input_enabled, setup, received>>
    BY <1>2 DEF DriverStartTx, ringvars, stdinvars
  <2>3. KBP!TypeOK' /\ KB!Contents' = KB!Contents
    BY <1>2, RingUnchanged DEF DriverStartTx
  <2>4. TypeOK'
    BY <2>0, <2>1, <2>2, <2>3, RingTypes, Zenon DEF TypeOK, Registers
  <2>5. /\ Head(unwritten) \in Byte /\ Tail(unwritten) \in Seq(Byte)
        /\ Append(txq, Head(unwritten)) \in Seq(Byte)
    BY <1>2, HeadTailProperties, AppendProperties DEF DriverStartTx, QueuesOK
  <2>6. QueuesOK'
    BY <1>2, <2>1, <2>2, <2>5 DEF DriverStartTx, QueuesOK
  <2>7. LatchClosed' /\ ReadReady'
    BY <2>0, <2>1, <2>2 DEF LatchClosed, Dlab, ReadReady
  <2>8. TransmitterKeepsOrder'
    <3>1. printed \o txq \in Seq(Byte)
      BY ConcatProperties DEF QueuesOK
    <3>2. printed \o Append(txq, Head(unwritten)) = Append(printed \o txq, Head(unwritten))
      BY <2>5, AppendMoves DEF QueuesOK
    <3>3. Append(printed \o txq, Head(unwritten)) \o Tail(unwritten) = (printed \o txq) \o unwritten
      BY <1>2, <3>1, Moved DEF DriverStartTx, QueuesOK
    <3>4. QED
      BY <1>2, <2>1, <3>2, <3>3 DEF DriverStartTx, TransmitterKeepsOrder
  <2>9. QED
    BY <2>2, <2>3, <2>4, <2>6, <2>7, <2>8, ReceiverUntouched
<1>3. CASE DriverInterrupt
  <2>1. /\ UNCHANGED <<head, tail, tty, buf, stdin, accepted, linux_serial_input_enabled, setup, uart0, printed, txq, unwritten, received>>
        /\ driver = "idle" /\ driver' = "IIR" /\ irq4' = FALSE
    BY <1>3 DEF DriverInterrupt, ringvars, stdinvars
  <2>2. KBP!TypeOK' /\ KB!Contents' = KB!Contents
    BY <1>3, RingUnchanged DEF DriverInterrupt
  <2>3. TypeOK'
    BY <2>1, <2>2, RingTypes, Zenon DEF TypeOK
  <2>4. QueuesOK' /\ LatchClosed' /\ ReadReady' /\ TransmitterKeepsOrder'
    BY <2>1 DEF QueuesOK, LatchClosed, Dlab, ReadReady, TransmitterKeepsOrder
  <2>5. QED
    BY <2>1, <2>2, <2>3, <2>4, ReceiverUntouched
<1>4. CASE DriverReadIir
  <2>1. /\ UNCHANGED <<tty, buf, stdin, accepted, linux_serial_input_enabled, setup, uart0, irq4, printed, txq, unwritten, received>>
        /\ driver = "IIR" /\ driver' \in {"idle", "LSR"}
    BY <1>4 DEF DriverReadIir, stdinvars, devvars
  <2>2. UNCHANGED ringvars
    BY <1>4 DEF DriverReadIir, uart_read
  <2>3. KBP!TypeOK' /\ KB!Contents' = KB!Contents
    BY <2>2, RingUnchanged
  <2>4. TypeOK'
    BY <2>1, <2>3, RingTypes, Zenon DEF TypeOK
  <2>5. QueuesOK' /\ LatchClosed' /\ ReadReady' /\ TransmitterKeepsOrder'
    BY <2>1 DEF QueuesOK, LatchClosed, Dlab, ReadReady, TransmitterKeepsOrder
  <2>6. QED
    BY <2>1, <2>3, <2>4, <2>5, ReceiverUntouched
<1>5. CASE DriverReadLsr
  <2>1. /\ UNCHANGED <<tty, buf, stdin, accepted, linux_serial_input_enabled, setup, uart0, irq4, printed, txq, unwritten, received>>
        /\ driver = "LSR" /\ driver' \in {"RBR", "THR"}
    BY <1>5 DEF DriverReadLsr, stdinvars, devvars
  <2>2. UNCHANGED ringvars /\ (driver' = "RBR" => head # tail)
    <3>1. PICK data \in Byte :
            uart_read(5, data) /\ driver' = IF data % 2 = 1 THEN "RBR" ELSE "THR"
      BY <1>5 DEF DriverReadLsr
    <3>2. data = Lsr /\ UNCHANGED ringvars
      BY <3>1 DEF uart_read
    <3>3. QED
      BY <3>1, <3>2 DEF Lsr, KB!keyboard_buffer_has_data
  <2>3. KBP!TypeOK' /\ KB!Contents' = KB!Contents
    BY <2>2, RingUnchanged
  <2>4. TypeOK'
    BY <2>1, <2>3, RingTypes, Zenon DEF TypeOK
  <2>5. QueuesOK' /\ LatchClosed' /\ ReadReady' /\ TransmitterKeepsOrder'
    BY <2>1, <2>2 DEF QueuesOK, LatchClosed, Dlab, ReadReady, TransmitterKeepsOrder, ringvars
  <2>6. QED
    BY <2>1, <2>3, <2>4, <2>5, ReceiverUntouched
<1>6. CASE DriverReadRbr
  <2>1. /\ UNCHANGED <<tty, buf, stdin, accepted, linux_serial_input_enabled, setup, uart0, irq4, printed, txq, unwritten>>
        /\ driver = "RBR" /\ driver' = "LSR" /\ ~Dlab /\ head # tail
    BY <1>6 DEF DriverReadRbr, stdinvars, devvars, LatchClosed, ReadReady
  <2>2. PICK ch \in Typed \cup {KB!Empty} :
          /\ KB!keyboard_buffer_pop(ch)
          /\ received' = Append(received, IF ch = KB!Empty THEN 0 ELSE ch)
    BY <1>6, <2>1 DEF DriverReadRbr, uart_read, ReadRbr
  <2>3. /\ KBP!TypeOK'
        /\ KB!Contents # << >> /\ KB!Contents \in Seq(Typed)
        /\ ch \in Typed /\ ch = Head(KB!Contents) /\ KB!Contents' = Tail(KB!Contents)
    BY <2>1, <2>2, RingPop
  <2>4. ch # KB!Empty
    BY <2>3, TypedAreBytes DEF Byte, KB!Empty
  <2>5. received' = Append(received, ch) /\ received' \in Seq(Typed)
    BY <2>2, <2>3, <2>4, AppendProperties DEF QueuesOK
  <2>6. TypeOK'
    BY <2>1, <2>3, RingTypes, Zenon DEF TypeOK
  <2>7. QueuesOK' /\ LatchClosed' /\ ReadReady' /\ TransmitterKeepsOrder'
    BY <2>1, <2>5 DEF QueuesOK, LatchClosed, Dlab, ReadReady, TransmitterKeepsOrder
  <2>8. ReceiverKeepsOrder'
    <3>1. Append(received, Head(KB!Contents)) \o Tail(KB!Contents) = received \o KB!Contents
      BY <2>3, Moved DEF QueuesOK
    <3>2. QED
      BY <2>1, <2>3, <2>5, <3>1 DEF ReceiverKeepsOrder
  <2>9. QED
    BY <2>3, <2>6, <2>7, <2>8
<1>7. CASE DriverTransmit
  <2>1. /\ UNCHANGED <<head, tail, tty, buf, stdin, accepted, linux_serial_input_enabled, setup, unwritten, received>>
        /\ driver = "THR" /\ driver' = "IIR" /\ ~Dlab
    BY <1>7 DEF DriverTransmit, ringvars, stdinvars, LatchClosed
  <2>2. KBP!TypeOK' /\ KB!Contents' = KB!Contents
    BY <1>7, RingUnchanged DEF DriverTransmit
  <2>3. /\ uart0' \in [Registers -> Byte] /\ irq4' \in BOOLEAN /\ uart0'.lcr = uart0.lcr
        /\ printed' \in Seq(Byte) /\ txq' \in Seq(Byte)
        /\ printed' \o txq' = printed \o txq
    <3>1. CASE txq # << >> /\ uart_write(0, Head(txq)) /\ txq' = Tail(txq)
      <4>1. irq4' \in BOOLEAN /\ UNCHANGED uart0 /\ printed' = Append(printed, Head(txq))
        BY <1>0, <2>1, <3>1, WriteThrEffect
      <4>2. Head(txq) \in Byte /\ Tail(txq) \in Seq(Byte)
        BY <3>1, HeadTailProperties DEF QueuesOK
      <4>3. Append(printed, Head(txq)) \in Seq(Byte)
        BY <4>2, AppendProperties DEF QueuesOK
      <4>4. Append(printed, Head(txq)) \o Tail(txq) = printed \o txq
        BY <3>1, Moved DEF QueuesOK
      <4>5. QED
        BY <1>0, <3>1, <4>1, <4>2, <4>3, <4>4
    <3>2. CASE txq = << >> /\ uart_write(1, 1) /\ UNCHANGED txq
      BY <1>0, <2>1, <3>2, WriteIerEffect DEF QueuesOK
    <3>3. QED
      BY <1>7, <3>1, <3>2 DEF DriverTransmit
  <2>4. TypeOK'
    BY <2>1, <2>2, <2>3, RingTypes, Zenon DEF TypeOK, Registers
  <2>5. QueuesOK' /\ LatchClosed' /\ ReadReady' /\ TransmitterKeepsOrder'
    BY <2>1, <2>3 DEF QueuesOK, LatchClosed, Dlab, ReadReady, TransmitterKeepsOrder
  <2>6. QED
    BY <2>1, <2>2, <2>4, <2>5, ReceiverUntouched
<1>8. QED
  BY <1>1, <1>2, <1>3, <1>4, <1>5, <1>6, <1>7 DEF GuestStep

LEMMA UartInvariant == Spec => []UartInv
<1>1. UartInv /\ UNCHANGED vars => UartInv'
  <2> SUFFICES ASSUME UartInv, UNCHANGED vars PROVE UartInv'
    OBVIOUS
  <2>1. UNCHANGED ringvars /\ UNCHANGED stdinvars /\ UNCHANGED devvars /\ UNCHANGED guestvars
    BY DEF vars
  <2>2. KBP!TypeOK' /\ KB!Contents' = KB!Contents
    BY <2>1, RingUnchanged DEF UartInv
  <2>3. QED
    BY <2>1, <2>2
    DEF UartInv, ringvars, stdinvars, devvars, guestvars, TypeOK, QueuesOK, LatchClosed, Dlab,
        ReadReady, ReceiverKeepsOrder, TransmitterKeepsOrder
<1>2. UartInv /\ [Next]_vars => UartInv'
  BY <1>1, StdinKeeps, GuestKeeps DEF Next, Quiet
<1>3. QED
  BY <1>2, InvInit, PTL DEF Spec

(* The registers hold bytes whatever the driver writes, and the positions  *)
(* of the ring stay inside it.                                             *)
THEOREM TypeCorrect == Spec => []TypeOK
<1>1. UartInv => TypeOK
  BY DEF UartInv
<1>2. QED
  BY <1>1, UartInvariant, PTL

(* What the guest's driver reads from RBR is what the stdin thread stored, *)
(* in order and without gaps: no interleaving of its LSR and RBR accesses  *)
(* with pushes loses, repeats or invents a character.                      *)
THEOREM ReceiverCorrect == Spec => []ReceiverKeepsOrder
<1>1. UartInv => ReceiverKeepsOrder
  BY DEF UartInv
<1>2. QED
  BY <1>1, UartInvariant, PTL

(* stdout receives what the guest's programs write, in order, and never    *)
(* the divisor that the start-up writes to the same offset.                *)
THEOREM TransmitterCorrect == Spec => []TransmitterKeepsOrder
<1>1. UartInv => TransmitterKeepsOrder
  BY DEF UartInv
<1>2. QED
  BY <1>1, UartInvariant, PTL

-----------------------------------------------------------------------------
(* With and without the stdin thread.                                      *)

(* The flag says that the stdin thread exists; without the thread the      *)
(* device raises no interrupt, so the driver's handler never runs and      *)
(* nothing is printed.                                                     *)
InputOK ==
  IF linux_serial_input_enabled THEN stdin # "none"
  ELSE stdin = "none" /\ ~irq4 /\ driver \in {"startup", "idle"} /\ printed = << >>

(* Without the flag no write to the device raises an interrupt.            *)
LEMMA WriteRaisesNothing ==
  ASSUME NEW offset, NEW data, uart_write(offset, data), ~linux_serial_input_enabled, ~irq4
  PROVE  ~irq4'
  BY Zenon DEF uart_write, Latch, WriteThr, WriteIer, PulseIrq4, devvars

LEMMA InputStep == UartInv /\ InputOK /\ [Next]_vars => InputOK'
<1> SUFFICES ASSUME UartInv, InputOK, [Next]_vars PROVE InputOK'
  OBVIOUS
<1>1. CASE StdinStep
  BY <1>1 DEF StdinStep, StdinRead, StdinPush, StdinPulse, InputOK
<1>2. CASE GuestStep
  <2>1. UNCHANGED <<stdin, linux_serial_input_enabled>>
    BY <1>2 DEF GuestStep, DriverStartup, DriverStartTx, DriverInterrupt, DriverReadIir,
                DriverReadLsr, DriverReadRbr, DriverTransmit, stdinvars
  <2>2. CASE linux_serial_input_enabled
    BY <2>1, <2>2 DEF InputOK
  <2>3. CASE ~linux_serial_input_enabled
    <3>1. stdin = "none" /\ ~irq4 /\ driver \in {"startup", "idle"} /\ printed = << >>
      BY <2>3 DEF InputOK
    <3>2. DriverStartup \/ DriverStartTx
      BY <1>2, <3>1 DEF GuestStep, DriverInterrupt, DriverReadIir, DriverReadLsr,
                        DriverReadRbr, DriverTransmit
    <3>3. CASE DriverStartup
      <4>1. ~irq4'
        BY <2>3, <3>1, <3>3, WriteRaisesNothing DEF DriverStartup
      <4>2. UNCHANGED printed /\ driver' \in {"startup", "idle"}
        BY <3>3, StartupEffect DEF UartInv
      <4>3. QED
        BY <2>1, <2>3, <3>1, <4>1, <4>2 DEF InputOK
    <3>4. CASE DriverStartTx
      <4>1. ~irq4'
        BY <2>3, <3>1, <3>4, WriteRaisesNothing DEF DriverStartTx
      <4>2. driver = "idle" /\ driver' = "idle" /\ ~Dlab /\ uart_write(1, 3)
        BY <3>4 DEF DriverStartTx, UartInv, LatchClosed
      <4>3. uart0 \in [Registers -> Byte] /\ irq4 \in BOOLEAN /\ 3 \in Byte
        BY DEF UartInv, TypeOK, Registers, Byte
      <4>4. UNCHANGED printed
        BY <4>2, <4>3, WriteIerEffect
      <4>5. QED
        BY <2>1, <2>3, <3>1, <4>1, <4>2, <4>4 DEF InputOK
    <3>5. QED
      BY <3>2, <3>3, <3>4
  <2>4. QED
    BY <2>2, <2>3
<1>3. CASE UNCHANGED vars
  BY <1>3 DEF vars, stdinvars, devvars, guestvars, InputOK
<1>4. QED
  BY <1>1, <1>2, <1>3 DEF Next, Quiet

LEMMA InputInvariant == Spec => [](UartInv /\ InputOK)
<1>1. Init => InputOK
  BY DEF Init, StartStdinThread, InputOK
<1>2. QED
  BY <1>1, InputStep, UartInvariant, PTL DEF Spec

(* What a failed pthread_create of the stdin thread costs: main() warns    *)
(* "Keyboard input disabled", but as it also clears the flag that          *)
(* uart_write tests, nothing that the guest's driver sends by interrupt is *)
(* printed either, for every input and output.                             *)
THEOREM SilentWithoutStdin == Spec => [](~linux_serial_input_enabled => printed = << >>)
<1>1. InputOK => (~linux_serial_input_enabled => printed = << >>)
  BY DEF InputOK
<1>2. QED
  BY <1>1, InputInvariant, PTL

-----------------------------------------------------------------------------
(* No wake-up is lost.                                                     *)

(* After the start-up the receiver interrupt is on, and while there is     *)
(* something to transmit the transmitter interrupt is on too.              *)
IerOK ==
  /\ driver = "startup" => txq = << >>
  /\ driver # "startup" => uart0.ier \in {1, 3}
  /\ txq # << >> => uart0.ier = 3

WakeInv == IerOK /\ NoLostWakeup

LEMMA InterruptBits == RxInterrupt(1) /\ RxInterrupt(3) /\ TxInterrupt(3) /\ ~TxInterrupt(1)
  BY DEF RxInterrupt, TxInterrupt

(* No write to the device takes a latched interrupt back.                  *)
LEMMA WriteKeepsIrq ==
  ASSUME NEW offset, NEW data, uart_write(offset, data), irq4
  PROVE  irq4'
<1>1. irq4' = irq4 \/ \E c : irq4' = (irq4 \/ c)
  BY Zenon DEF uart_write, Latch, WriteThr, WriteIer, PulseIrq4, devvars
<1>2. QED
  BY <1>1

(* Offset 1 with the latch closed sets IER, and raises an interrupt if     *)
(* that enables the transmitter's and the stdin thread exists.             *)
LEMMA IerWritten ==
  ASSUME uart0 \in [Registers -> Byte], ~Dlab, NEW data \in {1, 3}, uart_write(1, data)
  PROVE  uart0'.ier = data /\ (data = 3 /\ linux_serial_input_enabled => irq4')
<1>1. WriteIer(data)
  BY DEF uart_write
<1>2. uart0'.ier = data
  BY <1>1 DEF WriteIer, Registers
<1>3. ASSUME data = 3, linux_serial_input_enabled PROVE irq4'
  <2>1. irq4' = (irq4 \/ (linux_serial_input_enabled /\ TxInterrupt(3)))
    BY <1>1, <1>3 DEF WriteIer, PulseIrq4
  <2>2. QED
    BY <1>3, <2>1, InterruptBits
<1>4. QED
  BY <1>2, <1>3

LEMMA WakeStep == UartInv /\ InputOK /\ WakeInv /\ [Next]_vars => WakeInv'
<1> SUFFICES ASSUME UartInv, InputOK, WakeInv, [Next]_vars PROVE WakeInv'
  OBVIOUS
<1>0. uart0 \in [Registers -> Byte] /\ LatchClosed
  BY DEF UartInv, TypeOK, Registers
<1> USE DEF WakeInv
<1>1. CASE StdinRead
  BY <1>1 DEF StdinRead, ringvars, devvars, guestvars, IerOK, NoLostWakeup, KB!keyboard_buffer_has_data
<1>2. CASE StdinPush
  <2>1. stdin' = "push" /\ UNCHANGED <<linux_serial_input_enabled, irq4, uart0, driver, txq>>
    BY <1>2 DEF StdinPush, devvars, guestvars
  <2>2. QED
    BY <2>1 DEF IerOK, NoLostWakeup
<1>3. CASE StdinPulse
  <2>1. UNCHANGED <<uart0, driver, txq>> /\ linux_serial_input_enabled
    BY <1>3 DEF StdinPulse, guestvars, InputOK
  <2>2. irq4'
    BY <1>3, <2>1 DEF StdinPulse, PulseIrq4
  <2>3. QED
    BY <2>1, <2>2 DEF IerOK, NoLostWakeup
<1>4. CASE DriverStartup
  <2>1. driver = "startup" /\ UNCHANGED <<head, tail, stdin, txq>> /\ txq = << >>
    BY <1>4 DEF DriverStartup, ringvars, stdinvars, IerOK
  <2>2. irq4 => irq4'
    BY <1>4, WriteKeepsIrq DEF DriverStartup
  <2>3. driver' = "startup" \/ uart0'.ier = 1
    <3>1. CASE setup = 6
      <4>1. uart_write(1, 1) /\ ~Dlab
        BY <1>0, <1>4, <2>1, <3>1 DEF DriverStartup, StartupWrites, LatchClosed
      <4>2. 1 \in {1, 3}
        OBVIOUS
      <4>3. QED
        BY <1>0, <4>1, <4>2, IerWritten
    <3>2. CASE setup # 6
      BY <1>4, <3>2 DEF DriverStartup, StartupWrites
    <3>3. QED
      BY <3>1, <3>2
  <2>4. IerOK'
    BY <2>1, <2>3 DEF IerOK
  <2>5. NoLostWakeup'
    BY <2>1, <2>2, Zenon DEF NoLostWakeup, KB!keyboard_buffer_has_data
  <2>6. QED
    BY <2>4, <2>5
<1>5. CASE DriverStartTx
  <2>1. driver = "idle" /\ UNCHANGED driver /\ uart_write(1, 3) /\ ~Dlab
    BY <1>0, <1>5 DEF DriverStartTx, LatchClosed
  <2>2. uart0'.ier = 3 /\ (linux_serial_input_enabled => irq4')
    <3>1. 3 \in {1, 3}
      OBVIOUS
    <3>2. uart0'.ier = 3 /\ (3 = 3 /\ linux_serial_input_enabled => irq4')
      BY <1>0, <2>1, <3>1, IerWritten
    <3>3. QED
      BY <3>2
  <2>3. /\ UNCHANGED <<head, tail, stdin, linux_serial_input_enabled>>
        /\ irq4 => irq4'
    BY <1>5, <2>1, WriteKeepsIrq DEF DriverStartTx, ringvars, stdinvars
  <2>4. QED
    BY <2>1, <2>2, <2>3 DEF IerOK, NoLostWakeup, KB!keyboard_buffer_has_data
<1>6. CASE DriverInterrupt
  BY <1>6 DEF DriverInterrupt, IerOK, NoLostWakeup
<1>7. CASE DriverReadIir
  <2>1. driver = "IIR" /\ UNCHANGED <<uart0, txq, irq4, stdin, linux_serial_input_enabled>>
    BY <1>7 DEF DriverReadIir, stdinvars, devvars
  <2>2. PICK data \in Byte : uart_read(2, data) /\ driver' = IF data = 1 THEN "idle" ELSE "LSR"
    BY <1>7 DEF DriverReadIir
  <2>3. data = Iir /\ UNCHANGED ringvars
    BY <2>2 DEF uart_read
  <2>4. uart0.ier \in {1, 3}
    BY <2>1 DEF IerOK
  <2>5. ASSUME data = 1 PROVE head = tail /\ txq = << >>
    <3>1. ~(KB!keyboard_buffer_has_data /\ RxInterrupt(uart0.ier)) /\ ~TxInterrupt(uart0.ier)
      BY <2>3, <2>5 DEF Iir
    <3>2. uart0.ier = 1
      BY <2>4, <3>1, InterruptBits
    <3>3. QED
      BY <3>1, <3>2, InterruptBits DEF IerOK, KB!keyboard_buffer_has_data
  <2>6. IerOK'
    BY <2>1, <2>2, <2>4 DEF IerOK
  <2>7. NoLostWakeup'
    BY <2>1, <2>2, <2>3, <2>5 DEF NoLostWakeup, KB!keyboard_buffer_has_data, ringvars
  <2>8. QED
    BY <2>6, <2>7
<1>8. CASE DriverReadLsr
  <2>1. UNCHANGED <<uart0, txq>> /\ driver = "LSR" /\ driver' \in {"RBR", "THR"}
    BY <1>8 DEF DriverReadLsr, devvars
  <2>2. QED
    BY <2>1 DEF IerOK, NoLostWakeup
<1>9. CASE DriverReadRbr
  <2>1. UNCHANGED <<uart0, txq>> /\ driver = "RBR" /\ driver' = "LSR"
    BY <1>9 DEF DriverReadRbr, devvars
  <2>2. QED
    BY <2>1 DEF IerOK, NoLostWakeup
<1>10. CASE DriverTransmit
  <2>1. driver = "THR" /\ driver' = "IIR" /\ ~Dlab /\ uart0.ier \in {1, 3}
    BY <1>0, <1>10 DEF DriverTransmit, LatchClosed, IerOK
  <2>2. IerOK'
    <3>1. CASE txq # << >> /\ uart_write(0, Head(txq)) /\ txq' = Tail(txq)
      <4>1. UNCHANGED uart0
        BY <2>1, <3>1 DEF uart_write, WriteThr
      <4>2. QED
        BY <2>1, <3>1, <4>1 DEF IerOK
    <3>2. CASE txq = << >> /\ uart_write(1, 1) /\ UNCHANGED txq
      <4>1. 1 \in {1, 3}
        OBVIOUS
      <4>2. uart0'.ier = 1
        BY <1>0, <2>1, <3>2, <4>1, IerWritten
      <4>3. QED
        BY <2>1, <3>2, <4>2 DEF IerOK
    <3>3. QED
      BY <1>10, <3>1, <3>2 DEF DriverTransmit
  <2>3. QED
    BY <2>1, <2>2 DEF NoLostWakeup
<1>11. CASE UNCHANGED vars
  BY <1>11 DEF vars, ringvars, stdinvars, devvars, guestvars, IerOK, NoLostWakeup, KB!keyboard_buffer_has_data
<1>12. QED
  BY <1>1, <1>2, <1>3, <1>4, <1>5, <1>6, <1>7, <1>8, <1>9, <1>10, <1>11
  DEF Next, StdinStep, GuestStep, Quiet

LEMMA WakeInvariant == Spec => [](UartInv /\ WakeInv)
<1>1. Init => WakeInv
  BY DEF Init, KB!RingInit, WakeInv, IerOK, NoLostWakeup, KB!keyboard_buffer_has_data
<1>2. QED
  BY <1>1, WakeStep, InputInvariant, PTL DEF Spec

(* For every ring size, input and output: the one pulse after a batch of   *)
(* pushes and, if the stdin thread exists, the one that enabling the       *)
(* transmitter interrupt raises are enough, because the driver leaves its  *)
(* handler only when IIR found both queues empty.                          *)
THEOREM WakeupsKept == Spec => []NoLostWakeup
<1>1. WakeInv => NoLostWakeup
  BY DEF WakeInv
<1>2. QED
  BY <1>1, WakeInvariant, PTL

-----------------------------------------------------------------------------
(* The handler's work.                                                     *)

\* The parts of Work: characters, and the way to the end of the loop.
Tx == IF TxInterrupt(uart0.ier) THEN 1 ELSE 0
Load == 3 * (KB!Count + Len(txq) + Tx) + 7 * (Len(buf) + Len(tty))
Way ==
  CASE driver = "IIR" -> (IF KB!keyboard_buffer_has_data \/ TxInterrupt(uart0.ier) THEN 4 ELSE 1)
    [] driver = "LSR" -> 3
    [] driver = "RBR" -> 2
    [] driver = "THR" -> (IF KB!keyboard_buffer_has_data THEN 5 ELSE 2)
    [] OTHER -> 0

LEMMA WorkParts == Work = Load + Way /\ Work' = Load' + Way'
  BY Zenon DEF Work, Load, Way, Tx

\* KB!Count, from the two positions.
Distance(h, t) == IF t <= h THEN h - t ELSE h - t + Size

LEMMA DistanceFacts ==
  ASSUME NEW h \in 0 .. Size - 1, NEW t \in 0 .. Size - 1
  PROVE  Distance(h, t) \in Nat /\ (Distance(h, t) = 0 <=> h = t)
  BY SizeAssumption DEF Distance

LEMMA CountFacts ==
  ASSUME KBP!TypeOK
  PROVE  KB!Count \in Nat /\ Len(KB!Contents) = KB!Count /\ (KB!Count = 0 <=> head = tail)
<1>1. head \in 0 .. Size - 1 /\ tail \in 0 .. Size - 1
  BY DEF KBP!TypeOK, KBP!Index
<1>2. KB!Count = Distance(head, tail)
  BY DEF KB!Count, Distance
<1>3. KB!Count \in Nat /\ (KB!Count = 0 <=> head = tail)
  BY <1>1, <1>2, DistanceFacts, Zenon
<1>4. QED
  BY <1>3 DEF KB!Contents

LEMMA CountFactsNext ==
  ASSUME KBP!TypeOK'
  PROVE  KB!Count' \in Nat /\ Len(KB!Contents') = KB!Count' /\ (KB!Count' = 0 <=> head' = tail')
<1>1. head' \in 0 .. Size - 1 /\ tail' \in 0 .. Size - 1
  BY DEF KBP!TypeOK, KBP!Index
<1>2. KB!Count' = Distance(head', tail')
  BY DEF KB!Count, Distance
<1>3. KB!Count' \in Nat /\ (KB!Count' = 0 <=> head' = tail')
  BY <1>1, <1>2, DistanceFacts, Zenon
<1>4. QED
  BY <1>3 DEF KB!Contents

(* What a step does to the two parts of Work.                              *)
LEMMA WorkChange ==
  ASSUME NEW l \in Nat, NEW w \in Nat, NEW m \in Nat, NEW v \in Nat, NEW k \in Nat
  PROVE  /\ m <= l - k /\ v <= w + k => m + v <= l + w
         /\ m <= l - k /\ v < w + k => m + v < l + w
  OBVIOUS

LEMMA WorkFalls ==
  ASSUME Load \in Nat, Way \in Nat, Load' \in Nat, Way' \in Nat, NEW k \in Nat, Load' <= Load - k
  PROVE  (Way' <= Way + k => Work' <= Work) /\ (Way' < Way + k => Work' < Work)
  BY WorkParts, WorkChange, Zenon

LEMMA LoadChange ==
  ASSUME NEW n \in Nat, NEW q \in Nat, NEW e \in Nat, NEW b \in Nat, NEW t \in Nat,
         NEW n2 \in Nat, NEW b2 \in Nat, NEW t2 \in Nat
  PROVE  /\ n2 = n /\ b2 + t2 <= b + t =>
              3 * (n2 + q + e) + 7 * (b2 + t2) <= (3 * (n + q + e) + 7 * (b + t)) - 0
         /\ n2 <= n + 1 /\ b2 + t2 = b + t - 1 =>
              3 * (n2 + q + e) + 7 * (b2 + t2) <= (3 * (n + q + e) + 7 * (b + t)) - 4
  OBVIOUS

LEMMA LoadFacts ==
  ASSUME UartInv
  PROVE  /\ KB!Count \in Nat /\ Len(txq) \in Nat /\ Tx \in Nat
         /\ Len(buf) \in Nat /\ Len(tty) \in Nat
         /\ Load \in Nat /\ Way \in Nat
<1>1. KB!Count \in Nat
  BY CountFacts DEF UartInv
<1>2. Len(txq) \in Nat /\ Len(buf) \in Nat /\ Len(tty) \in Nat
  BY LenProperties DEF UartInv, QueuesOK
<1>3. Tx \in Nat
  BY DEF Tx
<1>4. Load \in Nat
  BY <1>1, <1>2, <1>3 DEF Load
<1>5. Way \in Nat
  BY DEF Way
<1>6. QED
  BY <1>1, <1>2, <1>3, <1>4, <1>5

LEMMA LoadFactsNext ==
  ASSUME UartInv'
  PROVE  /\ KB!Count' \in Nat /\ Len(txq') \in Nat /\ Tx' \in Nat
         /\ Len(buf') \in Nat /\ Len(tty') \in Nat
         /\ Load' \in Nat /\ Way' \in Nat
<1>1. KB!Count' \in Nat
  BY CountFactsNext DEF UartInv
<1>2. Len(txq') \in Nat /\ Len(buf') \in Nat /\ Len(tty') \in Nat
  BY LenProperties DEF UartInv, QueuesOK
<1>3. Tx' \in Nat
  BY DEF Tx
<1>4. Load' \in Nat
  BY <1>1, <1>2, <1>3 DEF Load
<1>5. Way' \in Nat
  BY DEF Way
<1>6. QED
  BY <1>1, <1>2, <1>3, <1>4, <1>5

(* What the stdin thread does while the handler runs: a push moves one     *)
(* character, of weight seven, into the ring, where it weighs three, and   *)
(* lengthens the way by three at most.                                     *)
LEMMA StdinAddsNoWork ==
  ASSUME UartInv, UartInv', StdinStep, InHandler
  PROVE  driver' = driver /\ Work' <= Work
<1>0. /\ KB!Count \in Nat /\ Len(txq) \in Nat /\ Tx \in Nat /\ Len(buf) \in Nat /\ Len(tty) \in Nat
      /\ Load \in Nat /\ Way \in Nat
  BY LoadFacts
<1>a. /\ KB!Count' \in Nat /\ Len(buf') \in Nat /\ Len(tty') \in Nat
      /\ Load' \in Nat /\ Way' \in Nat
  BY LoadFactsNext
<1>1. UNCHANGED <<uart0, driver, txq>>
  BY DEF StdinStep, StdinRead, StdinPush, StdinPulse, devvars, guestvars
<1>2. Tx' = Tx
  BY <1>1 DEF Tx
<1>b. /\ Load = 3 * (KB!Count + Len(txq) + Tx) + 7 * (Len(buf) + Len(tty))
      /\ Load' = 3 * (KB!Count' + Len(txq) + Tx) + 7 * (Len(buf') + Len(tty'))
  BY <1>1, <1>2, Zenon DEF Load
<1>3. 0 \in Nat /\ 4 \in Nat
  OBVIOUS
<1>4. CASE StdinRead
  <2>1. PICK n \in 1 .. Len(tty) :
          buf' = SubSeq(tty, 1, n) /\ tty' = SubSeq(tty, n + 1, Len(tty))
    BY <1>4 DEF StdinRead
  <2>2. tty \in Seq(Typed)
    BY DEF UartInv, QueuesOK
  <2>3. Len(buf') = n /\ Len(tty') = Len(tty) - n
    BY <1>0, <2>1, <2>2, SubSeqProperties
  <2>4. UNCHANGED <<head, tail>> /\ KB!Count' = KB!Count
    BY <1>4 DEF StdinRead, ringvars, KB!Count
  <2>5. Way' = Way
    BY <1>1, <2>4 DEF Way, KB!keyboard_buffer_has_data
  <2>6. Len(buf') + Len(tty') <= Len(buf) + Len(tty)
    BY <1>0, <2>1, <2>3
  <2>7. Load' <= Load - 0
    BY <1>0, <1>a, <1>b, <2>4, <2>6, LoadChange, Zenon
  <2>8. Way' <= Way + 0
    BY <1>0, <2>5
  <2>9. QED
    BY <1>0, <1>a, <1>1, <2>7, <2>8, WorkFalls, <1>3, Zenon
<1>5. CASE StdinPush
  <2>1. buf \in Seq(Typed) /\ buf # << >>
    BY <1>5 DEF StdinPush, UartInv, QueuesOK
  <2>2. Head(buf) \in Typed /\ Len(Tail(buf)) = Len(buf) - 1 /\ Len(buf) >= 1
    BY <2>1, HeadTailProperties, EmptySeq, <1>0
  <2>3. KB!Contents' = (IF head' # head THEN Append(KB!Contents, Head(buf)) ELSE KB!Contents)
        /\ (head # tail => head' # tail')
    BY <1>5, <2>2, RingPush DEF StdinPush, UartInv
  <2>4. Len(KB!Contents) = KB!Count /\ Len(KB!Contents') = KB!Count' /\ KB!Count' \in Nat
    BY CountFacts, CountFactsNext DEF UartInv
  <2>5. KB!Count' <= KB!Count + 1
    <3>1. KB!Contents \in Seq(Typed)
      BY KBP!ContentsFacts, SameContents, RingAssumptions DEF UartInv
    <3>2. Len(Append(KB!Contents, Head(buf))) = Len(KB!Contents) + 1
      BY <2>2, <3>1, AppendProperties
    <3>3. KB!Count' = KB!Count + 1 \/ KB!Count' = KB!Count
      BY <2>3, <2>4, <3>2, Zenon
    <3>4. QED
      BY <1>0, <3>3
  <2>6. Len(buf') = Len(buf) - 1 /\ UNCHANGED tty
    BY <1>5, <2>2 DEF StdinPush
  <2>7. Len(buf') + Len(tty') = Len(buf) + Len(tty) - 1
    BY <1>0, <2>6
  <2>8. Load' <= Load - 4
    BY <1>0, <1>a, <1>b, <2>5, <2>7, LoadChange, Zenon
  <2>9. Way' <= Way + 4
    BY <1>1, <2>3 DEF Way, KB!keyboard_buffer_has_data
  <2>10. QED
    BY <1>0, <1>a, <1>1, <1>3, <2>8, <2>9, WorkFalls, Zenon
<1>6. CASE StdinPulse
  <2>1. UNCHANGED <<head, tail, buf, tty>> /\ KB!Count' = KB!Count
    BY <1>6 DEF StdinPulse, ringvars, KB!Count
  <2>2. Way' = Way /\ Load' = Load
    BY <1>1, <1>2, <2>1 DEF Way, Load, KB!keyboard_buffer_has_data
  <2>3. Load' <= Load - 0 /\ Way' <= Way + 0
    BY <1>0, <2>2
  <2>4. QED
    BY <1>0, <1>a, <1>1, <1>3, <2>3, WorkFalls, Zenon
<1>7. QED
  BY <1>4, <1>5, <1>6 DEF StdinStep

(* Each access of the handler.                                             *)
LEMMA AccessDoesWork ==
  ASSUME UartInv, UartInv', WakeInv, GuestStep, InHandler
  PROVE  Work' < Work
<1>0. /\ KB!Count \in Nat /\ Len(txq) \in Nat /\ Tx \in Nat /\ Len(buf) \in Nat /\ Len(tty) \in Nat
      /\ Work = Load + Way /\ Work' = Load' + Way'
      /\ Load \in Nat /\ Way \in Nat
  BY LoadFacts, WorkParts
<1>a. Load' \in Nat /\ Way' \in Nat
  BY LoadFactsNext
<1>1. uart0 \in [Registers -> Byte] /\ LatchClosed /\ driver # "idle" /\ driver # "startup"
  BY DEF UartInv, TypeOK, Registers, InHandler
<1>2. ~Dlab /\ uart0.ier \in {1, 3} /\ Load \in Nat
  BY <1>0, <1>1 DEF LatchClosed, WakeInv, IerOK, Load
<1>3. CASE DriverReadIir
  <2>1. driver = "IIR" /\ UNCHANGED <<uart0, txq, buf, tty>>
    BY <1>3 DEF DriverReadIir, stdinvars, devvars
  <2>2. PICK data \in Byte : uart_read(2, data) /\ driver' = IF data = 1 THEN "idle" ELSE "LSR"
    BY <1>3 DEF DriverReadIir
  <2>3. data = Iir /\ UNCHANGED <<head, tail>>
    BY <2>2 DEF uart_read, ringvars
  <2>4. KB!Count' = KB!Count /\ Tx' = Tx
    BY <2>1, <2>3 DEF KB!Count, Tx
  <2>5. Load' = Load
    BY <2>1, <2>4 DEF Load
  <2>6. CASE data = 1
    <3>1. Way' = 0 /\ Way >= 1 /\ Way \in Nat
      BY <2>1, <2>2, <2>6 DEF Way
    <3>2. QED
      BY <1>0, <1>2, <2>5, <3>1
  <2>7. CASE data # 1
    <3>1. KB!keyboard_buffer_has_data \/ TxInterrupt(uart0.ier)
      BY <2>3, <2>7 DEF Iir
    <3>2. Way = 4 /\ Way' = 3
      BY <2>1, <2>2, <2>7, <3>1 DEF Way
    <3>3. QED
      BY <1>0, <1>2, <2>5, <3>2
  <2>8. QED
    BY <2>6, <2>7
<1>4. CASE DriverReadLsr
  <2>1. driver = "LSR" /\ UNCHANGED <<uart0, txq, buf, tty>>
    BY <1>4 DEF DriverReadLsr, stdinvars, devvars
  <2>2. PICK data \in Byte :
          uart_read(5, data) /\ driver' = IF data % 2 = 1 THEN "RBR" ELSE "THR"
    BY <1>4 DEF DriverReadLsr
  <2>3. data = Lsr /\ UNCHANGED <<head, tail>>
    BY <2>2 DEF uart_read, ringvars
  <2>4. (head # tail /\ driver' = "RBR") \/ (head = tail /\ driver' = "THR")
    BY <2>2, <2>3 DEF Lsr, KB!keyboard_buffer_has_data
  <2>5. KB!Count' = KB!Count /\ Tx' = Tx
    BY <2>1, <2>3 DEF KB!Count, Tx
  <2>6. Load' = Load
    BY <2>1, <2>5 DEF Load
  <2>7. Way = 3 /\ Way' = 2
    BY <2>1, <2>3, <2>4 DEF Way, KB!keyboard_buffer_has_data
  <2>8. QED
    BY <1>0, <1>2, <2>6, <2>7
<1>5. CASE DriverReadRbr
  <2>1. /\ driver = "RBR" /\ driver' = "LSR" /\ UNCHANGED <<uart0, txq, buf, tty>>
        /\ head # tail
    BY <1>5 DEF DriverReadRbr, stdinvars, devvars, UartInv, ReadReady
  <2>2. PICK ch : KB!keyboard_buffer_pop(ch)
    BY <1>2, <1>5 DEF DriverReadRbr, uart_read, ReadRbr
  <2>3. /\ KB!Contents # << >> /\ KB!Contents \in Seq(Typed)
        /\ KB!Contents' = Tail(KB!Contents)
    BY <2>1, <2>2, RingPop DEF UartInv
  <2>4. Len(KB!Contents) = KB!Count /\ Len(KB!Contents') = KB!Count' /\ KB!Count' \in Nat
    BY CountFacts, CountFactsNext DEF UartInv
  <2>5. Len(Tail(KB!Contents)) = Len(KB!Contents) - 1
    BY <2>3, HeadTailProperties
  <2>6. KB!Count' = KB!Count - 1
    BY <2>3, <2>4, <2>5, Zenon
  <2>7. Tx' = Tx
    BY <2>1 DEF Tx
  <2>8. Load' = Load - 3
    BY <1>0, <2>1, <2>6, <2>7 DEF Load
  <2>9. Way = 2 /\ Way' = 3
    BY <2>1 DEF Way
  <2>10. QED
    BY <1>0, <1>2, <2>8, <2>9
<1>6. CASE DriverTransmit
  <2>1. /\ driver = "THR" /\ driver' = "IIR" /\ UNCHANGED <<head, tail, buf, tty>>
        /\ KB!Count' = KB!Count
    BY <1>6 DEF DriverTransmit, ringvars, stdinvars, KB!Count
  <2>2. CASE txq # << >> /\ uart_write(0, Head(txq)) /\ txq' = Tail(txq)
    <3>1. UNCHANGED uart0
      BY <1>2, <2>2 DEF uart_write, WriteThr
    <3>2. txq \in Seq(Byte)
      BY DEF UartInv, QueuesOK
    <3>3. Len(txq') = Len(txq) - 1
      BY <2>2, <3>2, HeadTailProperties
    <3>4. Tx' = Tx
      BY <3>1 DEF Tx
    <3>5. Load' = Load - 3
      BY <1>0, <2>1, <3>3, <3>4 DEF Load
    <3>6. Load' <= Load - 3 /\ 3 \in Nat
      BY <1>0, <3>5
    <3>7. Way' < Way + 3
      BY <2>1 DEF Way, KB!keyboard_buffer_has_data
    <3>8. QED
      BY <1>0, <1>a, <3>6, <3>7, WorkFalls, Zenon
  <2>3. CASE txq = << >> /\ uart_write(1, 1) /\ UNCHANGED txq
    <3>1. 1 \in {1, 3}
      OBVIOUS
    <3>2. uart0'.ier = 1
      BY <1>1, <1>2, <2>3, <3>1, IerWritten
    <3>3. ~TxInterrupt(uart0'.ier) /\ Tx' = 0
      BY <3>2, InterruptBits DEF Tx
    <3>4. Load' <= Load - 0 /\ 0 \in Nat
      BY <1>0, <2>1, <2>3, <3>3 DEF Load
    <3>5. Way' < Way + 0
      BY <2>1, <3>3 DEF Way, KB!keyboard_buffer_has_data
    <3>6. QED
      BY <1>0, <1>a, <3>4, <3>5, WorkFalls, Zenon
  <2>4. QED
    BY <1>6, <2>2, <2>3 DEF DriverTransmit
<1>7. ~DriverStartup /\ ~DriverStartTx /\ ~DriverInterrupt
  BY <1>1 DEF DriverStartup, DriverStartTx, DriverInterrupt
<1>8. QED
  BY <1>3, <1>4, <1>5, <1>6, <1>7 DEF GuestStep

(* The handler comes back for every ring size, input and output: Work is a *)
(* natural number, each access of the handler decreases it and nothing     *)
(* that the stdin thread does meanwhile increases it.                      *)
THEOREM HandlerEnds == Spec => [](Work \in Nat) /\ HandlerProgress
<1>1. UartInv => Work \in Nat
  <2> SUFFICES ASSUME UartInv PROVE Work \in Nat
    OBVIOUS
  <2>1. Load \in Nat /\ Way \in Nat
    BY LoadFacts
  <2>2. QED
    BY <2>1, WorkParts
<1>2. ASSUME UartInv, UartInv', WakeInv, [Next]_vars
      PROVE  [InHandler => Work' <= Work /\ (driver' # driver => Work' < Work)]_vars
  <2> SUFFICES ASSUME InHandler, ~(UNCHANGED vars)
               PROVE  Work' <= Work /\ (driver' # driver => Work' < Work)
    OBVIOUS
  <2>1. CASE StdinStep
    BY <1>2, <2>1, StdinAddsNoWork
  <2>2. CASE GuestStep
    <3>1. Work' < Work
      BY <1>2, <2>2, AccessDoesWork
    <3>2. Work \in Nat
      BY <1>1, <1>2
    <3>3. Work' \in Int
      BY <1>2, LoadFactsNext, WorkParts
    <3>4. QED
      BY <3>1, <3>2, <3>3
  <2>3. QED
    BY <1>2, <2>1, <2>2 DEF Next, Quiet
<1>3. QED
  BY <1>1, <1>2, WakeInvariant, PTL DEF Spec, HandlerProgress
=============================================================================
