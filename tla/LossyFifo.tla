----------------------------- MODULE LossyFifo -----------------------------
(***************************************************************************)
(* What the keyboard buffer of the VMM promises to its clients: a bounded  *)
(* first-in first-out queue of characters that never blocks.  A character  *)
(* put into a full queue is dropped, and a get from an empty queue answers *)
(* Empty at once.                                                          *)
(*                                                                         *)
(* The abstract specification that module KeyboardBuffer implements.       *)
(***************************************************************************)
EXTENDS Naturals, Sequences

CONSTANTS
  Capacity,  \* how many characters fit
  Chars,     \* the characters that can be put
  Empty      \* the answer of a get that finds nothing

VARIABLES
  queue,     \* the characters held, oldest first
  ret        \* what the last Get or HasData answered

vars == <<queue, ret>>

Init ==
  /\ queue = << >>
  /\ ret = Empty

Put(ch) ==
  /\ \/ Len(queue) < Capacity /\ queue' = Append(queue, ch)
     \/ Len(queue) = Capacity /\ UNCHANGED queue
  /\ UNCHANGED ret

Get ==
  \/ queue # << >> /\ ret' = Head(queue) /\ queue' = Tail(queue)
  \/ queue = << >> /\ ret' = Empty       /\ UNCHANGED queue

HasData ==
  /\ ret' = (IF queue # << >> THEN 1 ELSE 0)
  /\ UNCHANGED queue

Next == Get \/ HasData \/ \E ch \in Chars : Put(ch)

Spec == Init /\ [][Next]_vars
=============================================================================
