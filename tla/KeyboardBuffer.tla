-------------------------- MODULE KeyboardBuffer --------------------------
(***************************************************************************)
(* keyboard_buffer of src/kvm-vmm-x86/src/main.c: the ring through which   *)
(* the stdin thread hands typed characters to the vCPU threads.  Every     *)
(* operation runs under keyboard_buffer.lock from its first to its last    *)
(* access, so each one is a single action.                                 *)
(*                                                                         *)
(* One slot always stays free (head = tail means empty), so a ring of Size *)
(* slots holds Size - 1 characters; a push into a full ring is dropped     *)
(* without a report to the caller.                                         *)
(***************************************************************************)
EXTENDS Integers, Sequences

CONSTANTS
  Size,   \* KEYBOARD_BUFFER_SIZE (256 in the code)
  Chars   \* the bytes that may be typed

ASSUME SizeAssumption == Size \in Nat /\ Size > 1
ASSUME CharsAssumption == Chars \subseteq 0..255

VARIABLES
  buffer, \* the slots
  head,   \* write position
  tail,   \* read position
  ret     \* what the last pop or has_data returned to its caller

ring == <<buffer, head, tail>>
vars == <<buffer, head, tail, ret>>

Empty == -1

Index == 0 .. Size - 1

\* The static initialiser: positions 0, slots zeroed.
RingInit ==
  /\ buffer = [i \in Index |-> 0]
  /\ head = 0
  /\ tail = 0

Init == RingInit /\ ret = Empty

\* Mutant: the test for a full ring is missing.
PushWithoutFullTest(ch) ==
  /\ buffer' = [buffer EXCEPT ![head] = ch]
  /\ head' = (head + 1) % Size
  /\ UNCHANGED tail

keyboard_buffer_push(ch) ==
  LET next_head == (head + 1) % Size IN
  /\ \/ /\ next_head # tail
        /\ buffer' = [buffer EXCEPT ![head] = ch]
        /\ head' = next_head
     \/ /\ next_head = tail
        /\ UNCHANGED <<buffer, head>>
  /\ UNCHANGED tail

\* Mutant: the test for an empty ring is missing.
PopWithoutEmptyTest(ch) ==
  /\ ch = buffer[tail]
  /\ tail' = (tail + 1) % Size
  /\ UNCHANGED <<buffer, head>>

\* Pop as a relation: it is the step in which the caller is answered ch.
keyboard_buffer_pop(ch) ==
  /\ \/ /\ head = tail
        /\ ch = Empty
        /\ UNCHANGED tail
     \/ /\ head # tail
        /\ ch = buffer[tail]
        /\ tail' = (tail + 1) % Size
  /\ UNCHANGED <<buffer, head>>

keyboard_buffer_has_data == head # tail

Push == \E ch \in Chars : keyboard_buffer_push(ch) /\ UNCHANGED ret

Pop == \E ch \in Chars \cup {0, Empty} : keyboard_buffer_pop(ch) /\ ret' = ch

HasData == ret' = (IF keyboard_buffer_has_data THEN 1 ELSE 0) /\ UNCHANGED ring

Next == Push \/ Pop \/ HasData

Spec == Init /\ [][Next]_vars

-----------------------------------------------------------------------------
(* How many characters are buffered, and where the i-th oldest one is.     *)
Count == IF tail <= head THEN head - tail ELSE head - tail + Size

Slot(i) == IF tail + i - 1 < Size THEN tail + i - 1 ELSE tail + i - 1 - Size

Contents == [i \in 1..Count |-> buffer[Slot(i)]]

(* The positions stay inside the array, the slots hold bytes, and every    *)
(* buffered slot holds a character that was pushed: pop never hands out a  *)
(* slot that nobody wrote.                                                 *)
TypeOK ==
  /\ buffer \in [Index -> Chars \cup {0}]
  /\ head \in Index
  /\ tail \in Index
  /\ ret \in Chars \cup {Empty, 0, 1}
  /\ \A i \in 1..Count : buffer[Slot(i)] \in Chars

(* keyboard_buffer_push/pop/has_data implement a bounded lossy FIFO of     *)
(* Size - 1 characters.                                                    *)
Fifo == INSTANCE LossyFifo WITH queue <- Contents, Capacity <- Size - 1

FifoSpec == Fifo!Spec
=============================================================================
