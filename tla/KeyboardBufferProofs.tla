----------------------- MODULE KeyboardBufferProofs -----------------------
(***************************************************************************)
(* Proofs about KeyboardBuffer, for every ring size and character set:     *)
(* the type invariant, and that the ring implements LossyFifo.             *)
(***************************************************************************)
EXTENDS KeyboardBuffer, SequenceTheorems, TLAPS

(* What the wrap-around arithmetic of push and pop computes.               *)
LEMMA Wrap ==
  ASSUME NEW i \in Index
  PROVE  (i + 1) % Size = IF i + 1 = Size THEN 0 ELSE i + 1
  BY SizeAssumption DEF Index

(* The number of buffered characters and the slots they occupy.            *)
LEMMA SlotFacts ==
  ASSUME head \in Index, tail \in Index
  PROVE  /\ Count \in 0 .. Size - 1
         /\ \A i \in 1..Count : Slot(i) \in Index /\ Slot(i) # head
         /\ Slot(Count + 1) = head
         /\ Slot(1) = tail
         /\ (Count = 0) <=> (head = tail)
         /\ (Count = Size - 1) <=> ((head + 1) % Size = tail)
  <1>1. (head + 1) % Size = IF head + 1 = Size THEN 0 ELSE head + 1
    BY Wrap
  <1>2. QED
    BY <1>1, SizeAssumption DEF Index, Count, Slot

(* A push that finds a free slot writes behind the youngest character and  *)
(* moves no other.                                                         *)
LEMMA PushStores ==
  ASSUME TypeOK, NEW ch \in Chars, keyboard_buffer_push(ch), (head + 1) % Size # tail
  PROVE  /\ Count' = Count + 1
         /\ \A i \in 1 .. Count + 1 :
              buffer'[Slot(i)'] = IF i = Count + 1 THEN ch ELSE buffer[Slot(i)]
  <1>1. (head + 1) % Size = IF head + 1 = Size THEN 0 ELSE head + 1
    BY Wrap DEF TypeOK
  <1>2. /\ buffer' = [buffer EXCEPT ![head] = ch]
        /\ head' = (head + 1) % Size
        /\ tail' = tail
    BY DEF keyboard_buffer_push
  <1>3. Count' = Count + 1
    BY <1>1, <1>2, SizeAssumption DEF TypeOK, Index, Count
  <1>4. \A i \in 1 .. Count + 1 : Slot(i)' = Slot(i)
    BY <1>2 DEF Slot
  <1>5. /\ Count \in Nat
        /\ \A i \in 1..Count : Slot(i) \in Index /\ Slot(i) # head
        /\ Slot(Count + 1) = head
    BY SlotFacts, SizeAssumption DEF TypeOK
  <1>6. ASSUME NEW i \in 1 .. Count + 1
        PROVE  buffer'[Slot(i)] = IF i = Count + 1 THEN ch ELSE buffer[Slot(i)]
    <2>1. CASE i = Count + 1
      BY <1>2, <1>5, <2>1 DEF TypeOK
    <2>2. CASE i \in 1..Count
      BY <1>2, <1>5, <2>2 DEF TypeOK
    <2>3. QED
      BY <1>5, <2>1, <2>2
  <1>7. QED
    BY <1>3, <1>4, <1>6

(* A pop that finds a character takes the oldest and moves the others one  *)
(* place up.                                                               *)
LEMMA PopTakes ==
  ASSUME TypeOK, NEW ch, keyboard_buffer_pop(ch), head # tail
  PROVE  /\ Count' = Count - 1
         /\ buffer' = buffer
         /\ \A i \in 1 .. Count - 1 : Slot(i)' = Slot(i + 1)
         /\ ch = buffer[Slot(1)]
  <1>1. (tail + 1) % Size = IF tail + 1 = Size THEN 0 ELSE tail + 1
    BY Wrap DEF TypeOK
  <1>2. /\ buffer' = buffer
        /\ head' = head
        /\ tail' = (tail + 1) % Size
        /\ ch = buffer[tail]
    BY DEF keyboard_buffer_pop
  <1>3. Count' = Count - 1
    BY <1>1, <1>2, SizeAssumption DEF TypeOK, Index, Count
  <1>4. \A i \in 1 .. Count - 1 : Slot(i)' = Slot(i + 1)
    BY <1>1, <1>2, SizeAssumption DEF TypeOK, Index, Count, Slot
  <1>5. QED
    BY <1>2, <1>3, <1>4, SlotFacts DEF TypeOK

\* TypeOK without what the ring answered last.
RingOK ==
  /\ buffer \in [Index -> Chars \cup {0}]
  /\ head \in Index
  /\ tail \in Index
  /\ \A i \in 1..Count : buffer[Slot(i)] \in Chars

(* A push keeps the positions in range, and the slots between tail and     *)
(* head hold pushed characters, across wrap-around and drop;               *)
LEMMA PushKeepsRing ==
  ASSUME TypeOK, NEW ch \in Chars, keyboard_buffer_push(ch)
  PROVE  RingOK'
<1>0. Count \in 0 .. Size - 1
  BY SlotFacts DEF TypeOK
<1>1. CASE (head + 1) % Size = tail
  BY <1>1 DEF keyboard_buffer_push, TypeOK, RingOK, Count, Slot
<1>2. CASE (head + 1) % Size # tail
  <2>1. head' \in Index /\ tail' \in Index /\ buffer' \in [Index -> Chars \cup {0}]
    BY <1>2, SizeAssumption DEF keyboard_buffer_push, TypeOK, Index
  <2>2. \A i \in 1..Count' : buffer'[Slot(i)'] \in Chars
    BY <1>0, <1>2, PushStores, SizeAssumption DEF TypeOK
  <2>3. QED
    BY <2>1, <2>2 DEF RingOK
<1>3. QED
  BY <1>1, <1>2

(* and so does a pop.                                                      *)
LEMMA PopKeepsRing ==
  ASSUME TypeOK, NEW ch, keyboard_buffer_pop(ch)
  PROVE  RingOK'
<1>0. Count \in 0 .. Size - 1
  BY SlotFacts DEF TypeOK
<1>1. CASE head = tail
  BY <1>1 DEF keyboard_buffer_pop, TypeOK, RingOK, Count, Slot
<1>2. CASE head # tail
  <2>1. head' \in Index /\ tail' \in Index /\ buffer' \in [Index -> Chars \cup {0}]
    BY <1>2, SizeAssumption DEF keyboard_buffer_pop, TypeOK, Index
  <2>2. \A i \in 1..Count' : buffer'[Slot(i)'] \in Chars
    BY <1>0, <1>2, PopTakes, SizeAssumption DEF TypeOK
  <2>3. QED
    BY <2>1, <2>2 DEF RingOK
<1>3. QED
  BY <1>1, <1>2

(* TypeOK is inductive.                                                    *)
LEMMA TypeStep == TypeOK /\ [Next]_vars => TypeOK'
<1> SUFFICES ASSUME TypeOK, [Next]_vars PROVE TypeOK'
  OBVIOUS
<1>1. CASE Push
  BY <1>1, PushKeepsRing DEF Push, RingOK, TypeOK
<1>2. CASE Pop
  BY <1>2, PopKeepsRing DEF Pop, RingOK, TypeOK
<1>3. CASE HasData
  BY <1>3 DEF HasData, ring, TypeOK, Count, Slot
<1>4. CASE UNCHANGED vars
  BY <1>4 DEF vars, TypeOK, Count, Slot
<1>5. QED
  BY <1>1, <1>2, <1>3, <1>4 DEF Next

(* The type invariant of the keyboard ring holds for every size.           *)
THEOREM TypeCorrect == Spec => []TypeOK
<1>1. Init => TypeOK
  BY SizeAssumption, CharsAssumption
  DEF Init, RingInit, TypeOK, Index, Count, Slot, Empty
<1>2. QED
  BY <1>1, TypeStep, PTL DEF Spec

-----------------------------------------------------------------------------
(* The contents as a sequence of characters.                               *)
LEMMA ContentsFacts ==
  ASSUME TypeOK
  PROVE  /\ Contents \in Seq(Chars)
         /\ Len(Contents) = Count
         /\ \A i \in 1..Count : Contents[i] = buffer[Slot(i)]
         /\ (Contents = << >>) <=> (head = tail)
  <1>1. Count \in Nat /\ ((Count = 0) <=> (head = tail))
    BY SlotFacts, SizeAssumption DEF TypeOK
  <1>2. Contents \in [1..Count -> Chars]
    BY DEF Contents, TypeOK
  <1>3. Contents \in Seq(Chars) /\ Len(Contents) = Count
    BY <1>1, <1>2
  <1>4. QED
    BY <1>1, <1>3 DEF Contents

(* A stored push appends to the contents.                                  *)
LEMMA PushAppends ==
  ASSUME TypeOK, TypeOK', NEW ch \in Chars, keyboard_buffer_push(ch),
         (head + 1) % Size # tail
  PROVE  Contents' = Append(Contents, ch)
  <1>1. /\ Count' = Count + 1
        /\ \A i \in 1 .. Count + 1 :
             buffer'[Slot(i)'] = IF i = Count + 1 THEN ch ELSE buffer[Slot(i)]
    BY PushStores
  <1>2. Count \in Nat /\ Contents \in Seq(Chars) /\ Len(Contents) = Count
    BY ContentsFacts, SlotFacts, SizeAssumption DEF TypeOK
  <1>3. Contents' = [i \in 1 .. Count + 1 |-> buffer'[Slot(i)']]
    BY <1>1 DEF Contents
  <1>4. \A i \in 1..Count : Contents[i] = buffer[Slot(i)]
    BY ContentsFacts
  <1> DEFINE app == Append(Contents, ch)
  <1>5. /\ app \in Seq(Chars)
        /\ Len(app) = Count + 1
        /\ \A i \in 1..Count : app[i] = Contents[i]
        /\ app[Count + 1] = ch
    BY <1>2, AppendProperties
  <1>6. app = [i \in 1 .. Count + 1 |-> app[i]]
    BY <1>2, <1>5, LenProperties
  <1> HIDE DEF app
  <1>7. \A i \in 1 .. Count + 1 : app[i] = buffer'[Slot(i)']
    BY <1>1, <1>2, <1>4, <1>5
  <1>8. Contents' = app
    BY <1>3, <1>6, <1>7
  <1>9. QED
    BY <1>8 DEF app

(* A pop that finds a character answers the head and leaves the tail.      *)
LEMMA PopBeheads ==
  ASSUME TypeOK, TypeOK', NEW ch, keyboard_buffer_pop(ch), head # tail
  PROVE  ch = Head(Contents) /\ Contents' = Tail(Contents)
  <1>1. /\ Count' = Count - 1
        /\ buffer' = buffer
        /\ \A i \in 1 .. Count - 1 : Slot(i)' = Slot(i + 1)
        /\ ch = buffer[Slot(1)]
    BY PopTakes
  <1>2. /\ Count \in Nat \ {0}
        /\ Contents \in Seq(Chars)
        /\ Len(Contents) = Count
        /\ \A i \in 1..Count : Contents[i] = buffer[Slot(i)]
    BY ContentsFacts, SlotFacts, SizeAssumption DEF TypeOK
  <1>3. Contents' = [i \in 1 .. Count - 1 |-> buffer[Slot(i + 1)]]
    BY <1>1 DEF Contents
  <1>4. \A i \in 1 .. Count - 1 : Contents[i + 1] = buffer[Slot(i + 1)]
    BY <1>2
  <1> DEFINE rest == Tail(Contents)
  <1>5. /\ rest \in Seq(Chars)
        /\ Len(rest) = Count - 1
        /\ \A i \in 1 .. Count - 1 : rest[i] = Contents[i + 1]
    BY <1>2, HeadTailProperties
  <1>6. rest = [i \in 1 .. Count - 1 |-> rest[i]]
    BY <1>2, <1>5, LenProperties
  <1> HIDE DEF rest
  <1>7. Contents' = rest
    BY <1>3, <1>4, <1>5, <1>6
  <1>8. Head(Contents) = buffer[Slot(1)]
    BY <1>2
  <1>9. QED
    BY <1>1, <1>7, <1>8 DEF rest

(* What a caller of push and pop may rely on.  A push was stored exactly   *)
(* when head moved;                                                        *)
LEMMA PushEffect ==
  ASSUME TypeOK, TypeOK', NEW ch \in Chars, keyboard_buffer_push(ch)
  PROVE  Contents' = IF head' # head THEN Append(Contents, ch) ELSE Contents
<1>1. (head + 1) % Size = IF head + 1 = Size THEN 0 ELSE head + 1
  BY Wrap DEF TypeOK
<1>2. CASE (head + 1) % Size = tail
  BY <1>2 DEF keyboard_buffer_push, Contents, Count, Slot
<1>3. CASE (head + 1) % Size # tail
  <2>1. head' # head
    BY <1>1, <1>3, SizeAssumption DEF keyboard_buffer_push, TypeOK, Index
  <2>2. QED
    BY <1>3, <2>1, PushAppends
<1>4. QED
  BY <1>2, <1>3

(* a pop answers "empty", or the oldest character, which it removes.       *)
LEMMA PopEffect ==
  ASSUME TypeOK, TypeOK', NEW ch, keyboard_buffer_pop(ch)
  PROVE  \/ head = tail /\ ch = Empty /\ Contents' = Contents
         \/ /\ head # tail /\ Contents # << >> /\ Contents \in Seq(Chars)
            /\ ch \in Chars /\ ch = Head(Contents) /\ Contents' = Tail(Contents)
<1>1. CASE head = tail
  BY <1>1 DEF keyboard_buffer_pop, Contents, Count, Slot
<1>2. CASE head # tail
  <2>1. Contents # << >> /\ Contents \in Seq(Chars)
    BY <1>2, ContentsFacts
  <2>2. Head(Contents) \in Chars
    BY <2>1, HeadTailProperties
  <2>3. QED
    BY <1>2, <2>1, <2>2, PopBeheads
<1>3. QED
  BY <1>1, <1>2

(* The ring implements the lossy FIFO: every operation of the ring is the  *)
(* same operation of the queue, whatever the size of the ring.             *)
THEOREM Refinement == Spec => FifoSpec
<1>1. Init => Fifo!Init
  BY SizeAssumption DEF Init, RingInit, Fifo!Init, Contents, Count, Empty
<1>2. TypeOK /\ TypeOK' /\ [Next]_vars => [Fifo!Next]_(Fifo!vars)
  <2> SUFFICES ASSUME TypeOK, TypeOK', [Next]_vars
               PROVE  [Fifo!Next]_(Fifo!vars)
    OBVIOUS
  <2>0. /\ Len(Contents) = Count
        /\ (Contents = << >>) <=> (head = tail)
        /\ Count \in 0 .. Size - 1
        /\ (Count = Size - 1) <=> ((head + 1) % Size = tail)
    BY ContentsFacts, SlotFacts DEF TypeOK
  <2>1. CASE Push
    <3>1. PICK ch \in Chars : keyboard_buffer_push(ch) /\ UNCHANGED ret
      BY <2>1 DEF Push
    <3>2. CASE (head + 1) % Size = tail
      <4>1. Contents' = Contents
        BY <3>1, <3>2 DEF keyboard_buffer_push, Contents, Count, Slot
      <4>2. QED
        BY <2>0, <3>1, <3>2, <4>1 DEF Fifo!Next, Fifo!Put
    <3>3. CASE (head + 1) % Size # tail
      <4>1. Contents' = Append(Contents, ch)
        BY <3>1, <3>3, PushAppends
      <4>2. Len(Contents) < Size - 1
        BY <2>0, <3>3, SizeAssumption
      <4>3. QED
        BY <3>1, <4>1, <4>2 DEF Fifo!Next, Fifo!Put
    <3>4. QED
      BY <3>2, <3>3
  <2>2. CASE Pop
    <3>1. PICK ch \in Chars \cup {0, Empty} : keyboard_buffer_pop(ch) /\ ret' = ch
      BY <2>2 DEF Pop
    <3>2. CASE head = tail
      <4>1. Contents' = Contents /\ ch = Empty
        BY <3>1, <3>2 DEF keyboard_buffer_pop, Contents, Count, Slot
      <4>2. QED
        BY <2>0, <3>1, <3>2, <4>1 DEF Fifo!Next, Fifo!Get
    <3>3. CASE head # tail
      <4>1. ch = Head(Contents) /\ Contents' = Tail(Contents)
        BY <3>1, <3>3, PopBeheads
      <4>2. QED
        BY <2>0, <3>1, <3>3, <4>1 DEF Fifo!Next, Fifo!Get
    <3>4. QED
      BY <3>2, <3>3
  <2>3. CASE HasData
    <3>1. Contents' = Contents
      BY <2>3 DEF HasData, ring, Contents, Count, Slot
    <3>2. QED
      BY <2>0, <2>3, <3>1 DEF HasData, keyboard_buffer_has_data, Fifo!Next, Fifo!HasData
  <2>4. CASE UNCHANGED vars
    BY <2>4 DEF vars, Contents, Count, Slot, Fifo!vars
  <2>5. QED
    BY <2>1, <2>2, <2>3, <2>4 DEF Next
<1>3. QED
  BY <1>1, <1>2, TypeCorrect, PTL DEF Spec, FifoSpec, Fifo!Spec
=============================================================================
