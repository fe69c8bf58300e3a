---------------------- MODULE HypercallConsoleProofs ----------------------
(***************************************************************************)
(* Proofs about HypercallConsole, for every ring size, number of vCPUs,    *)
(* guest program and input: characters are neither lost nor repeated       *)
(* between the stdin thread and getchar().                                 *)
(***************************************************************************)
EXTENDS HypercallConsole, SequenceLemmas, TLAPS

\* What KeyboardBufferProofs proves about the ring, for this ring.
KBP == INSTANCE KeyboardBufferProofs WITH Chars <- Typed, ret <- -1

(* Typed characters are bytes.                                             *)
LEMMA TypedAreBytes ==
  /\ Typed \subseteq Byte
  /\ \A s \in Inputs : s \in Seq(Typed)
<1>1. ASSUME NEW s \in Inputs
      PROVE  Range(s) \subseteq Byte /\ s \in Seq(Range(s)) /\ Range(s) \subseteq Typed
  BY InputsAssumption, SeqOfOwnRange DEF Typed
<1>2. QED
  BY <1>1, SeqMonotonic DEF Typed

(* The assumptions under which KeyboardBufferProofs proves its lemmas.     *)
LEMMA RingAssumptions == Size \in Nat /\ Size > 1 /\ Typed \subseteq 0..255
  BY SizeAssumption, TypedAreBytes DEF Byte

-----------------------------------------------------------------------------
(* What a vCPU took, when one more character is taken.                     *)

\* The clause that Taken adds for one entry of popped.
Sees(e, v) == e[1] = v /\ Visible(e[2])

\* g is the recursive function in Taken.
Unfolds(g, p, v) ==
  /\ g[0] = << >>
  /\ \A n \in 1 .. Len(p) :
       g[n] = IF Sees(p[n], v) THEN Append(g[n - 1], SignExtend(p[n][2])) ELSE g[n - 1]

(* It exists, and its last value is what v took.                           *)
LEMMA TakenUnfolds ==
  ASSUME NEW p \in Seq(Vcpu \X Byte), NEW v
  PROVE  \E g : Unfolds(g, p, v) /\ Taken(p, v) = g[Len(p)]
<1> DEFINE Body(f) == [n \in 0 .. Len(p) |->
                         IF n = 0 THEN << >>
                         ELSE IF p[n][1] = v /\ Visible(p[n][2])
                         THEN Append(f[n - 1], SignExtend(p[n][2]))
                         ELSE f[n - 1]]
           g == CHOOSE f : f = Body(f)
           step == [k \in 1 .. Len(p) |-> [s \in Seq(Int) |->
                      IF Sees(p[k], v) THEN Append(s, SignExtend(p[k][2])) ELSE s]]
<1>1. Len(p) \in Nat /\ \A k \in 1 .. Len(p) : p[k] \in Vcpu \X Byte
  BY ElementOfSeq, LenProperties
<1>2. ASSUME NEW k \in 1 .. Len(p) PROVE SignExtend(p[k][2]) \in Int
  <2>1. p[k][2] \in Byte
    BY <1>1
  <2>2. \A b \in Byte : SignExtend(b) \in Int
    BY DEF SignExtend, Byte
  <2>3. QED
    BY <2>1, <2>2, Zenon
<1>3. step \in [1 .. Len(p) -> [Seq(Int) -> Seq(Int)]]
  <2>1. ASSUME NEW k \in 1 .. Len(p), NEW s \in Seq(Int)
        PROVE  (IF Sees(p[k], v) THEN Append(s, SignExtend(p[k][2])) ELSE s) \in Seq(Int)
    BY <1>2, AppendProperties
  <2>2. QED
    BY <2>1
<1>4. PICK f : Recursive(f, Len(p), Seq(Int), << >>, step)
  <2>1. << >> \in Seq(Int) /\ step \in StepFunctions(Len(p), Seq(Int))
    BY <1>3 DEF StepFunctions
  <2> HIDE DEF step
  <2>2. QED
    BY <1>1, <2>1, RecursionUpTo, Zenon
<1>5. ASSUME NEW k \in 1 .. Len(p)
      PROVE  f[k] = IF Sees(p[k], v) THEN Append(f[k - 1], SignExtend(p[k][2])) ELSE f[k - 1]
  <2>1. k - 1 \in 0 .. Len(p)
    BY <1>1
  <2>2. f[k - 1] \in Seq(Int)
    BY <1>4, <2>1 DEF Recursive
  <2>3. step[k][f[k - 1]] = IF Sees(p[k], v) THEN Append(f[k - 1], SignExtend(p[k][2])) ELSE f[k - 1]
    BY <2>2
  <2>4. f[k] = step[k][f[k - 1]]
    BY <1>4, Zenon DEF Recursive
  <2>5. QED
    BY <2>3, <2>4, Zenon
<1>6. f = Body(f)
  <2>1. ASSUME NEW n \in 0 .. Len(p) PROVE f[n] = Body(f)[n]
    <3>1. CASE n = 0
      BY <1>4, <3>1 DEF Recursive
    <3>2. CASE n # 0
      <4>1. n \in 1 .. Len(p)
        BY <1>1, <3>2
      <4>2. QED
        BY <1>5, <3>2, <4>1 DEF Sees
    <3>3. QED
      BY <3>1, <3>2
  <2>2. f = [n \in 0 .. Len(p) |-> f[n]]
    BY <1>4 DEF Recursive
  <2>3. QED
    BY <2>1, <2>2
<1>7. g = Body(g)
  <2> HIDE DEF Body
  <2>1. QED
    BY <1>6, Zenon
<1>8. Taken(p, v) = g[Len(p)]
  BY DEF Taken
<1> HIDE DEF g
<1>9. g[0] = << >>
  BY <1>1, <1>7
<1>10. ASSUME NEW n \in 1 .. Len(p)
       PROVE  g[n] = IF Sees(p[n], v) THEN Append(g[n - 1], SignExtend(p[n][2])) ELSE g[n - 1]
  <2>1. n \in 0 .. Len(p) /\ n # 0
    BY <1>1
  <2>2. Body(g)[n] = IF Sees(p[n], v) THEN Append(g[n - 1], SignExtend(p[n][2])) ELSE g[n - 1]
    BY <2>1 DEF Sees
  <2> HIDE DEF Body
  <2>3. QED
    BY <1>7, <2>2, Zenon
<1>11. QED
  BY <1>8, <1>9, <1>10, Zenon DEF Unfolds

LEMMA TakenEmpty ==
  ASSUME NEW v
  PROVE  Taken(<< >>, v) = << >>
<1>1. << >> \in Seq(Vcpu \X Byte) /\ Len(<< >>) = 0
  OBVIOUS
<1>2. PICK g : Unfolds(g, << >>, v) /\ Taken(<< >>, v) = g[Len(<< >>)]
  BY <1>1, TakenUnfolds, Zenon
<1>3. g[0] = << >>
  BY <1>2 DEF Unfolds
<1>4. QED
  BY <1>1, <1>2, <1>3

(* One more character is added behind what v has taken, if v took it and   *)
(* its guest can see it.                                                   *)
LEMMA TakenAppend ==
  ASSUME NEW p \in Seq(Vcpu \X Byte), NEW e \in Vcpu \X Byte, NEW v
  PROVE  Taken(Append(p, e), v) =
           IF Sees(e, v) THEN Append(Taken(p, v), SignExtend(e[2])) ELSE Taken(p, v)
<1> DEFINE q == Append(p, e)
           n == Len(p)
<1>1. /\ q \in Seq(Vcpu \X Byte) /\ Len(q) = n + 1 /\ n \in Nat
      /\ q[n + 1] = e /\ \A k \in 1..n : q[k] = p[k]
  BY AppendProperties, LenProperties
<1>2. PICK g : Unfolds(g, p, v) /\ Taken(p, v) = g[n]
  BY TakenUnfolds
<1> HIDE DEF q
<1>3. PICK h : Unfolds(h, q, v) /\ Taken(q, v) = h[n + 1]
  <2>1. q \in Seq(Vcpu \X Byte) /\ Len(q) = n + 1
    BY <1>1
  <2>2. PICK h : Unfolds(h, q, v) /\ Taken(q, v) = h[Len(q)]
    BY <2>1, TakenUnfolds, Zenon
  <2>3. QED
    BY <2>1, <2>2
<1>4. /\ g[0] = << >>
      /\ \A k \in 1..n :
           g[k] = IF Sees(p[k], v) THEN Append(g[k - 1], SignExtend(p[k][2])) ELSE g[k - 1]
  BY <1>2 DEF Unfolds
<1>5. /\ h[0] = << >>
      /\ \A k \in 1 .. n + 1 :
           h[k] = IF Sees(q[k], v) THEN Append(h[k - 1], SignExtend(q[k][2])) ELSE h[k - 1]
  BY <1>1, <1>3 DEF Unfolds
<1> HIDE DEF n
<1> DEFINE T == {k \in 0..n : h[k] = g[k]}
<1>6. 0 \in T
  BY <1>1, <1>4, <1>5
<1>7. ASSUME NEW k \in 0 .. n - 1, k \in T PROVE k + 1 \in T
  <2>1. k + 1 \in 1..n /\ k + 1 \in 1 .. n + 1 /\ (k + 1) - 1 = k /\ h[k] = g[k] /\ k + 1 \in 0..n
    BY <1>1, <1>7
  <2>2. q[k + 1] = p[k + 1]
    BY <1>1, <2>1
  <2>3. h[k + 1] = IF Sees(q[k + 1], v) THEN Append(h[k], SignExtend(q[k + 1][2])) ELSE h[k]
    BY <1>5, <2>1
  <2>4. g[k + 1] = IF Sees(p[k + 1], v) THEN Append(g[k], SignExtend(p[k + 1][2])) ELSE g[k]
    BY <1>4, <2>1
  <2>5. QED
    BY <2>1, <2>2, <2>3, <2>4
<1>8. n \in T
  <2> HIDE DEF T
  <2>1. 0..n \subseteq T
    BY <1>1, <1>6, <1>7, InductionUpTo
  <2>2. QED
    BY <1>1, <2>1
<1>9. h[n + 1] = IF Sees(e, v) THEN Append(h[n], SignExtend(e[2])) ELSE h[n]
  <2>1. n + 1 \in 1 .. n + 1 /\ (n + 1) - 1 = n
    BY <1>1
  <2>2. QED
    BY <1>1, <1>5, <2>1
<1>10. QED
  BY <1>2, <1>3, <1>8, <1>9 DEF q

-----------------------------------------------------------------------------
(* The lemmas of KeyboardBufferProofs in terms of this module.             *)
LEMMA RingUnchanged ==
  ASSUME KBP!TypeOK, UNCHANGED ringvars
  PROVE  KBP!TypeOK' /\ KB!Contents' = KB!Contents
  BY DEF ringvars, KBP!TypeOK, KBP!Count, KBP!Slot, KB!Contents, KB!Count, KB!Slot

LEMMA SameContents == KB!Contents = KBP!Contents /\ KB!Contents' = KBP!Contents'
  BY DEF KB!Contents, KB!Count, KB!Slot, KBP!Contents, KBP!Count, KBP!Slot

LEMMA RingPush ==
  ASSUME KBP!TypeOK, NEW ch \in Typed, KB!keyboard_buffer_push(ch)
  PROVE  /\ KBP!TypeOK'
         /\ KB!Contents' = IF head' # head THEN Append(KB!Contents, ch) ELSE KB!Contents
<1>1. KBP!keyboard_buffer_push(ch)
  BY DEF KB!keyboard_buffer_push, KBP!keyboard_buffer_push
<1>2. KBP!RingOK'
  BY <1>1, KBP!PushKeepsRing, RingAssumptions
<1>3. KBP!TypeOK'
  BY <1>2 DEF KBP!RingOK, KBP!TypeOK, KBP!Empty
<1>4. KBP!Contents' = IF head' # head THEN Append(KBP!Contents, ch) ELSE KBP!Contents
  BY <1>1, <1>3, KBP!PushEffect, RingAssumptions
<1>5. QED
  BY <1>3, <1>4, SameContents

LEMMA RingPop ==
  ASSUME KBP!TypeOK, NEW ch, KB!keyboard_buffer_pop(ch)
  PROVE  /\ KBP!TypeOK'
         /\ \/ head = tail /\ ch = KB!Empty /\ KB!Contents' = KB!Contents
            \/ /\ head # tail /\ KB!Contents # << >> /\ KB!Contents \in Seq(Typed)
               /\ ch \in Typed /\ ch = Head(KB!Contents) /\ KB!Contents' = Tail(KB!Contents)
<1>1. KBP!keyboard_buffer_pop(ch)
  BY DEF KB!keyboard_buffer_pop, KBP!keyboard_buffer_pop, KB!Empty, KBP!Empty
<1>2. KBP!RingOK'
  BY <1>1, KBP!PopKeepsRing, RingAssumptions
<1>3. KBP!TypeOK'
  BY <1>2 DEF KBP!RingOK, KBP!TypeOK, KBP!Empty
<1>4. \/ head = tail /\ ch = KBP!Empty /\ KBP!Contents' = KBP!Contents
      \/ /\ head # tail /\ KBP!Contents # << >> /\ KBP!Contents \in Seq(Typed)
         /\ ch \in Typed /\ ch = Head(KBP!Contents) /\ KBP!Contents' = Tail(KBP!Contents)
  BY <1>1, <1>3, KBP!PopEffect, RingAssumptions
<1>5. QED
  BY <1>3, <1>4, SameContents DEF KB!Empty, KBP!Empty

(* The part of TypeOK that is about the ring follows from the ring's own.  *)
LEMMA RingTypes ==
  ASSUME KBP!TypeOK'
  PROVE  (head \in KB!Index /\ tail \in KB!Index /\ buffer \in [KB!Index -> Typed \cup {0}])'
  BY DEF KBP!TypeOK, KBP!Index, KB!Index

-----------------------------------------------------------------------------
(* The inductive invariant.                                                *)

\* The characters of popped, in the order in which they were taken.
CharsOf(p) == [n \in DOMAIN p |-> p[n][2]]

\* The first part of NothingLostOrRepeated.
Conserved == accepted = CharsOf(popped) \o KB!Contents

QueuesOK ==
  /\ keys \in Seq(Typed) /\ tty \in Seq(Typed) /\ buf \in Seq(Typed)
  /\ popped \in Seq(Vcpu \X Typed)

GuestsOK == program \in Programs /\ gpc \in [Vcpu -> Nat]

(* A result is pending only behind the OUT that asked for it, so that a    *)
(* retry never leaves the program.                                         *)
PendingBehindOut == \A v \in Vcpu : pending_getchar[v] = 1 => gpc[v] > 1

ConsoleInv ==
  /\ KBP!TypeOK /\ TypeOK /\ QueuesOK /\ GuestsOK /\ PendingBehindOut /\ Conserved

(* Guests built on os-1k/user.c: a GETCHAR is an OUT directly followed by  *)
(* its IN, and there is no other IN.                                       *)
UserCode ==
  \A p \in Programs, v \in Vcpu : \A n \in DOMAIN p[v] :
    /\ p[v][n].op = "IN" => n > 1 /\ p[v][n - 1] = Out(HC_GETCHAR)
    /\ p[v][n] = Out(HC_GETCHAR) => n + 1 \in DOMAIN p[v] /\ p[v][n + 1].op = "IN"

(* Then a result is pending exactly while the guest is before its IN.      *)
Handshake ==
  \A v \in Vcpu : pending_getchar[v] = 1 <=> gpc[v] \in DOMAIN program[v] /\ Instr(v).op = "IN"

\* The second part of NothingLostOrRepeated.
Delivered == \A v \in Vcpu : Taken(popped, v) = got[v] \o InFlight(v)

UserInv == got \in [Vcpu -> Seq(Int)] /\ Handshake /\ Delivered

LEMMA CharsOfFacts ==
  ASSUME NEW p \in Seq(Vcpu \X Typed)
  PROVE  /\ CharsOf(p) \in Seq(Typed)
         /\ \A v \in Vcpu, ch \in Typed : CharsOf(Append(p, <<v, ch>>)) = Append(CharsOf(p), ch)
<1>1. /\ Len(p) \in Nat /\ DOMAIN p = 1 .. Len(p)
      /\ \A n \in 1 .. Len(p) : p[n] \in Vcpu \X Typed
  BY ElementOfSeq, LenProperties
<1>2. \A n \in 1 .. Len(p) : p[n][2] \in Typed
  BY <1>1
<1>3. CharsOf(p) = [n \in 1 .. Len(p) |-> p[n][2]]
  BY <1>1 DEF CharsOf
<1>4. CharsOf(p) \in Seq(Typed) /\ Len(CharsOf(p)) = Len(p)
  BY <1>1, <1>2, <1>3
<1>5. ASSUME NEW v \in Vcpu, NEW ch \in Typed
      PROVE  CharsOf(Append(p, <<v, ch>>)) = Append(CharsOf(p), ch)
  <2> DEFINE q == Append(p, <<v, ch>>)
             r == Append(CharsOf(p), ch)
  <2>1. <<v, ch>> \in Vcpu \X Typed
    OBVIOUS
  <2>2. /\ q \in Seq(Vcpu \X Typed) /\ Len(q) = Len(p) + 1
        /\ q[Len(p) + 1] = <<v, ch>> /\ \A n \in 1 .. Len(p) : q[n] = p[n]
    BY <2>1, AppendProperties
  <2>3. /\ r \in Seq(Typed) /\ Len(r) = Len(p) + 1
        /\ r[Len(p) + 1] = ch /\ \A n \in 1 .. Len(p) : r[n] = CharsOf(p)[n]
    BY <1>4, AppendProperties
  <2> HIDE DEF q, r
  <2>4. CharsOf(q) = [n \in 1 .. Len(p) + 1 |-> q[n][2]]
    BY <2>2, LenProperties DEF CharsOf
  <2>5. r = [n \in 1 .. Len(p) + 1 |-> r[n]]
    BY <2>3, LenProperties
  <2>6. ASSUME NEW n \in 1 .. Len(p) + 1 PROVE q[n][2] = r[n]
    <3>1. CASE n = Len(p) + 1
      BY <2>2, <2>3, <3>1
    <3>2. CASE n # Len(p) + 1
      <4>1. n \in 1 .. Len(p)
        BY <1>1, <3>2
      <4>2. QED
        BY <1>3, <2>2, <2>3, <4>1
    <3>3. QED
      BY <3>1, <3>2
  <2>7. CharsOf(q) = r
    BY <2>4, <2>5, <2>6
  <2>8. QED
    BY <2>7 DEF q, r
<1>6. QED
  BY <1>4, <1>5

LEMMA InvInit == Init => ConsoleInv
<1> SUFFICES ASSUME Init PROVE ConsoleInv
  OBVIOUS
<1>1. head = 0 /\ tail = 0 /\ buffer = [k \in 0 .. Size - 1 |-> 0]
  BY DEF Init, KB!RingInit, KB!Index
<1>2. KBP!TypeOK
  BY <1>1, SizeAssumption DEF KBP!TypeOK, KBP!Index, KBP!Count, KBP!Empty
<1>3. GuestsOK /\ PendingBehindOut
  BY DEF Init, GuestsOK, PendingBehindOut
<1>4. TypeOK
  <2>1. head \in KB!Index /\ tail \in KB!Index /\ buffer \in [KB!Index -> Typed \cup {0}]
    BY <1>1, SizeAssumption DEF KB!Index
  <2>2. ASSUME NEW v \in Vcpu PROVE gpc[v] \in 1 .. Len(program[v]) + 1
    <3>1. program[v] \in Seq(Instructions)
      BY ProgramsAssumption DEF Init
    <3>2. Len(program[v]) \in Nat
      BY <3>1, LenProperties
    <3>3. gpc[v] = 1
      BY DEF Init
    <3>4. QED
      BY <3>2, <3>3
  <2>3. pending_getchar \in [Vcpu -> {0, 1}] /\ getchar_result \in [Vcpu -> Byte \cup {KB!Empty}]
    BY DEF Init, Byte
  <2>4. running \in [Vcpu -> BOOLEAN] /\ thread \in [Vcpu -> {"loop", "done"}]
    BY DEF Init
  <2>5. QED
    BY <2>1, <2>2, <2>3, <2>4 DEF TypeOK
<1>5. QueuesOK
  BY TypedAreBytes DEF Init, QueuesOK
<1>6. Conserved
  <2>1. KB!Contents = << >>
    BY <1>1 DEF KB!Contents, KB!Count
  <2>2. popped = << >> /\ accepted = << >>
    BY DEF Init
  <2>3. CharsOf(<< >>) = << >>
    BY DEF CharsOf
  <2>4. QED
    BY <2>1, <2>2, <2>3 DEF Conserved
<1>7. QED
  BY <1>2, <1>3, <1>4, <1>5, <1>6 DEF ConsoleInv

(* The user and the stdin thread.                                          *)
LEMMA StdinKeeps == ConsoleInv /\ (Type \/ StdinStep) => ConsoleInv'
<1> SUFFICES ASSUME ConsoleInv, Type \/ StdinStep PROVE ConsoleInv'
  OBVIOUS
<1> USE DEF ConsoleInv
<1>0. UNCHANGED <<guestvars, ctxvars, popped>>
  BY DEF Type, StdinStep, StdinRead, StdinPush
<1>1. UNCHANGED <<program, gpc, got, pending_getchar, getchar_result, running, thread, popped>>
  BY <1>0 DEF guestvars, ctxvars
<1>2. GuestsOK' /\ PendingBehindOut'
  BY <1>1 DEF GuestsOK, PendingBehindOut
<1>3. ASSUME KBP!TypeOK' PROVE TypeOK'
  BY <1>1, <1>3, RingTypes, Zenon DEF TypeOK
<1>4. CASE Type
  <2>1. KBP!TypeOK' /\ KB!Contents' = KB!Contents
    BY <1>4, RingUnchanged DEF Type
  <2>2. /\ Head(keys) \in Typed /\ Tail(keys) \in Seq(Typed)
        /\ Append(tty, Head(keys)) \in Seq(Typed)
    BY <1>4, HeadTailProperties, AppendProperties DEF Type, QueuesOK
  <2>3. QueuesOK'
    BY <1>1, <1>4, <2>2 DEF Type, QueuesOK
  <2>4. Conserved'
    BY <1>1, <1>4, <2>1 DEF Type, Conserved
  <2>5. QED
    BY <1>2, <1>3, <2>1, <2>3, <2>4
<1>5. CASE StdinRead
  <2>1. KBP!TypeOK' /\ KB!Contents' = KB!Contents
    BY <1>5, RingUnchanged DEF StdinRead
  <2>2. PICK n \in 0 .. Len(tty) : buf' = SubSeq(tty, 1, n) /\ tty' = SubSeq(tty, n + 1, Len(tty))
    <3>1. Len(tty) \in Nat
      BY DEF QueuesOK
    <3> DEFINE m == IF Len(tty) < ReadMax THEN Len(tty) ELSE ReadMax
    <3>2. m \in 0 .. Len(tty)
      BY <3>1, ReadMaxAssumption
    <3>3. buf' = SubSeq(tty, 1, m) /\ tty' = SubSeq(tty, m + 1, Len(tty))
      BY <1>5 DEF StdinRead
    <3> HIDE DEF m
    <3>4. QED
      BY <3>2, <3>3
  <2>3. tty \in Seq(Typed) /\ Len(tty) \in Nat
    BY DEF QueuesOK
  <2>4. buf' \in Seq(Typed) /\ tty' \in Seq(Typed)
    BY <2>2, <2>3, SubSeqProperties
  <2>5. QueuesOK'
    BY <1>1, <1>5, <2>4 DEF StdinRead, QueuesOK
  <2>6. Conserved'
    BY <1>1, <1>5, <2>1 DEF StdinRead, Conserved
  <2>7. QED
    BY <1>2, <1>3, <2>1, <2>5, <2>6
<1>6. CASE StdinPush
  <2>1. Head(buf) \in Typed /\ Tail(buf) \in Seq(Typed)
    BY <1>6, HeadTailProperties DEF StdinPush, QueuesOK
  <2>2. /\ KBP!TypeOK'
        /\ KB!Contents' = IF head' # head THEN Append(KB!Contents, Head(buf)) ELSE KB!Contents
    BY <1>6, <2>1, RingPush DEF StdinPush
  <2>3. QueuesOK'
    BY <1>1, <1>6, <2>1 DEF StdinPush, QueuesOK
  <2>4. Conserved'
    <3>1. KB!Contents \in Seq(Typed) /\ CharsOf(popped) \in Seq(Typed)
      BY KBP!ContentsFacts, SameContents, RingAssumptions, CharsOfFacts DEF QueuesOK
    <3>2. CharsOf(popped) \o Append(KB!Contents, Head(buf))
            = Append(CharsOf(popped) \o KB!Contents, Head(buf))
      BY <2>1, <3>1, AppendMoves
    <3>3. QED
      BY <1>1, <1>6, <2>2, <3>2 DEF StdinPush, Conserved
  <2>5. QED
    BY <1>2, <1>3, <2>2, <2>3, <2>4
<1>7. QED
  BY <1>4, <1>5, <1>6 DEF StdinStep

(* The guest goes on to its next instruction.                              *)
LEMMA GpcMoves ==
  ASSUME GuestsOK, TypeOK, NEW v \in Vcpu, InGuest(v), NextInstr(v)
  PROVE  /\ GuestsOK' /\ UNCHANGED program
         /\ \A u \in Vcpu : gpc'[u] = IF u = v THEN gpc[v] + 1 ELSE gpc[u]
         /\ \A u \in Vcpu : gpc'[u] \in 1 .. Len(program'[u]) + 1
<1>1. UNCHANGED program /\ gpc' = [gpc EXCEPT ![v] = gpc[v] + 1] /\ gpc \in [Vcpu -> Nat]
  BY DEF NextInstr, GuestsOK
<1>2. \A u \in Vcpu : gpc'[u] = IF u = v THEN gpc[v] + 1 ELSE gpc[u]
  BY <1>1
<1>3. GuestsOK'
  BY <1>1 DEF GuestsOK
<1>4. program[v] \in Seq(Instructions)
  BY ProgramsAssumption DEF GuestsOK
<1>5. Len(program[v]) \in Nat /\ gpc[v] \in 1 .. Len(program[v])
  BY <1>4, LenProperties DEF InGuest
<1>6. ASSUME NEW u \in Vcpu PROVE gpc'[u] \in 1 .. Len(program'[u]) + 1
  <2>1. CASE u = v
    BY <1>1, <1>2, <1>5, <2>1
  <2>2. CASE u # v
    BY <1>1, <1>2, <2>2 DEF TypeOK
  <2>3. QED
    BY <2>1, <2>2
<1>7. QED
  BY <1>1, <1>2, <1>3, <1>6

(* A step that leaves the ring alone conserves what is in it.              *)
LEMMA ConservedUntouched ==
  ASSUME KBP!TypeOK, QueuesOK, Conserved, UNCHANGED ringvars, UNCHANGED stdinvars, UNCHANGED popped
  PROVE  KBP!TypeOK' /\ QueuesOK' /\ Conserved'
<1>1. KBP!TypeOK' /\ KB!Contents' = KB!Contents
  BY RingUnchanged
<1>2. QED
  BY <1>1 DEF stdinvars, QueuesOK, Conserved

(* GETCHAR moves one character from the ring to what was taken.            *)
LEMMA GetcharConserves ==
  ASSUME ConsoleInv, NEW v \in Vcpu, UNCHANGED stdinvars,
         NEW ch \in Typed \cup {KB!Empty}, KB!keyboard_buffer_pop(ch),
         popped' = IF ch = KB!Empty THEN popped ELSE Append(popped, <<v, ch>>)
  PROVE  KBP!TypeOK' /\ QueuesOK' /\ Conserved'
<1> USE DEF ConsoleInv
<1>1. /\ KBP!TypeOK'
      /\ \/ head = tail /\ ch = KB!Empty /\ KB!Contents' = KB!Contents
         \/ /\ head # tail /\ KB!Contents # << >> /\ KB!Contents \in Seq(Typed)
            /\ ch \in Typed /\ ch = Head(KB!Contents) /\ KB!Contents' = Tail(KB!Contents)
  BY RingPop
<1>2. CASE ch = KB!Empty
  <2>1. ch \notin Typed
    BY <1>2, TypedAreBytes DEF Byte, KB!Empty
  <2>2. popped' = popped /\ KB!Contents' = KB!Contents
    BY <1>1, <1>2, <2>1
  <2>3. QED
    BY <1>1, <2>2 DEF stdinvars, QueuesOK, Conserved
<1>3. CASE ch # KB!Empty
  <2>1. popped' = Append(popped, <<v, ch>>) /\ ch \in Typed /\ <<v, ch>> \in Vcpu \X Typed
    BY <1>3
  <2>2. popped' \in Seq(Vcpu \X Typed)
    BY <2>1, AppendProperties DEF QueuesOK
  <2>3. QueuesOK'
    BY <2>2 DEF stdinvars, QueuesOK
  <2>4. CharsOf(popped') = Append(CharsOf(popped), ch) /\ CharsOf(popped) \in Seq(Typed)
    BY <2>1, CharsOfFacts DEF QueuesOK
  <2>5. Append(CharsOf(popped), Head(KB!Contents)) \o Tail(KB!Contents) = CharsOf(popped) \o KB!Contents
    BY <1>1, <1>3, <2>4, Moved
  <2>6. Conserved'
    BY <1>1, <1>3, <2>4, <2>5 DEF stdinvars, Conserved
  <2>7. QED
    BY <1>1, <2>3, <2>6
<1>4. QED
  BY <1>2, <1>3

(* The exits of a vCPU.                                                    *)
LEMMA VcpuKeeps ==
  ASSUME ConsoleInv, NEW v \in Vcpu, VcpuStep(v)
  PROVE  ConsoleInv'
<1> USE DEF ConsoleInv
<1>0. ASSUME KBP!TypeOK', UNCHANGED <<running, thread>>,
             pending_getchar' \in [Vcpu -> {0, 1}],
             getchar_result' \in [Vcpu -> Byte \cup {KB!Empty}],
             \A u \in Vcpu : gpc'[u] \in 1 .. Len(program'[u]) + 1
      PROVE  TypeOK'
  BY <1>0, RingTypes, Zenon DEF TypeOK
<1>1. CASE handle_hypercall_out(v)
  <2>0. InGuest(v) /\ UNCHANGED stdinvars
    BY <1>1 DEF handle_hypercall_out
  <2>1. CASE HypercallExit(v)
    <3>1. UNCHANGED ringvars /\ UNCHANGED popped
      BY <2>1 DEF HypercallExit
    <3>2. KBP!TypeOK' /\ QueuesOK' /\ Conserved'
      BY <2>0, <3>1, ConservedUntouched
    <3>3. /\ GuestsOK' /\ UNCHANGED program
          /\ \A u \in Vcpu : gpc'[u] = IF u = v THEN gpc[v] + 1 ELSE gpc[u]
          /\ \A u \in Vcpu : gpc'[u] \in 1 .. Len(program'[u]) + 1
      BY <2>0, <2>1, GpcMoves DEF HypercallExit
    <3>4. /\ running' \in [Vcpu -> BOOLEAN]
          /\ UNCHANGED <<pending_getchar, getchar_result, thread>>
      BY <2>1 DEF HypercallExit, TypeOK
    <3>5. TypeOK'
      BY <3>2, <3>3, <3>4, RingTypes, Zenon DEF TypeOK
    <3>6. PendingBehindOut'
      BY <3>3, <3>4 DEF PendingBehindOut, GuestsOK
    <3>7. QED
      BY <3>2, <3>3, <3>5, <3>6
  <2>2. CASE HypercallPutchar(v)
    <3>1. UNCHANGED ringvars /\ UNCHANGED popped
          /\ UNCHANGED <<pending_getchar, getchar_result, running, thread>>
      BY <2>2 DEF HypercallPutchar, ctxvars
    <3>2. KBP!TypeOK' /\ QueuesOK' /\ Conserved'
      BY <2>0, <3>1, ConservedUntouched
    <3>3. /\ GuestsOK' /\ UNCHANGED program
          /\ \A u \in Vcpu : gpc'[u] = IF u = v THEN gpc[v] + 1 ELSE gpc[u]
          /\ \A u \in Vcpu : gpc'[u] \in 1 .. Len(program'[u]) + 1
      BY <2>0, <2>2, GpcMoves DEF HypercallPutchar
    <3>4. TypeOK'
      BY <3>1, <3>2, <3>3, RingTypes, Zenon DEF TypeOK
    <3>5. PendingBehindOut'
      BY <3>1, <3>3 DEF PendingBehindOut, GuestsOK
    <3>6. QED
      BY <3>2, <3>3, <3>4, <3>5
  <2>3. CASE HypercallGetchar(v)
    <3>1. PICK ch \in Typed \cup {KB!Empty} :
            /\ KB!keyboard_buffer_pop(ch)
            /\ getchar_result' = [getchar_result EXCEPT ![v] = ch]
            /\ popped' = IF ch = KB!Empty THEN popped ELSE Append(popped, <<v, ch>>)
      BY <2>3 DEF HypercallGetchar
    <3>2. KBP!TypeOK' /\ QueuesOK' /\ Conserved'
      BY <2>0, <3>1, GetcharConserves
    <3>3. /\ GuestsOK' /\ UNCHANGED program
          /\ \A u \in Vcpu : gpc'[u] = IF u = v THEN gpc[v] + 1 ELSE gpc[u]
          /\ \A u \in Vcpu : gpc'[u] \in 1 .. Len(program'[u]) + 1
      BY <2>0, <2>3, GpcMoves DEF HypercallGetchar
    <3>4. /\ pending_getchar' = [pending_getchar EXCEPT ![v] = 1]
          /\ UNCHANGED <<running, thread>>
      BY <2>3 DEF HypercallGetchar
    <3>5. pending_getchar' \in [Vcpu -> {0, 1}] /\ getchar_result' \in [Vcpu -> Byte \cup {KB!Empty}]
      BY <3>1, <3>4, TypedAreBytes DEF TypeOK
    <3>6. TypeOK'
      BY <1>0, <3>2, <3>3, <3>4, <3>5
    <3>7. PendingBehindOut'
      <4>1. gpc[v] >= 1 /\ gpc[v] \in Nat
        BY DEF TypeOK, GuestsOK
      <4>2. ASSUME NEW u \in Vcpu, pending_getchar'[u] = 1 PROVE gpc'[u] > 1
        BY <3>3, <3>4, <4>1, <4>2 DEF PendingBehindOut, TypeOK
      <4>3. QED
        BY <4>2 DEF PendingBehindOut
    <3>8. QED
      BY <3>2, <3>3, <3>6, <3>7
  <2>4. CASE HypercallUnknown(v)
    <3>1. /\ UNCHANGED ringvars /\ UNCHANGED popped
          /\ UNCHANGED <<program, gpc, pending_getchar, getchar_result, running>>
          /\ thread' \in [Vcpu -> {"loop", "done"}]
      BY <2>4 DEF HypercallUnknown, TypeOK
    <3>2. KBP!TypeOK' /\ QueuesOK' /\ Conserved'
      BY <2>0, <3>1, ConservedUntouched
    <3>3. TypeOK'
      BY <3>1, <3>2, RingTypes, Zenon DEF TypeOK
    <3>4. GuestsOK' /\ PendingBehindOut'
      BY <3>1 DEF GuestsOK, PendingBehindOut
    <3>5. QED
      BY <3>2, <3>3, <3>4
  <2>5. QED
    BY <1>1, <2>1, <2>2, <2>3, <2>4 DEF handle_hypercall_out
<1>2. CASE handle_hypercall_in(v)
  <2>1. /\ InGuest(v) /\ UNCHANGED ringvars /\ UNCHANGED stdinvars /\ UNCHANGED popped
        /\ UNCHANGED <<getchar_result, running, thread>>
        /\ pending_getchar' = [pending_getchar EXCEPT ![v] = 0]
    BY <1>2 DEF handle_hypercall_in
  <2>2. KBP!TypeOK' /\ QueuesOK' /\ Conserved'
    BY <2>1, ConservedUntouched
  <2>3. pending_getchar' \in [Vcpu -> {0, 1}] /\ getchar_result' \in [Vcpu -> Byte \cup {KB!Empty}]
    BY <2>1 DEF TypeOK
  <2>4. CASE SignExtend(InData(v)) # -1
    <3>1. NextInstr(v)
      BY <1>2, <2>4 DEF handle_hypercall_in
    <3>2. /\ GuestsOK' /\ UNCHANGED program
          /\ \A u \in Vcpu : gpc'[u] = IF u = v THEN gpc[v] + 1 ELSE gpc[u]
          /\ \A u \in Vcpu : gpc'[u] \in 1 .. Len(program'[u]) + 1
      BY <2>1, <3>1, GpcMoves
    <3>3. TypeOK'
      BY <1>0, <2>1, <2>2, <2>3, <3>2
    <3>4. PendingBehindOut'
      BY <2>1, <3>2 DEF PendingBehindOut, TypeOK
    <3>5. QED
      BY <2>2, <3>2, <3>3, <3>4
  <2>5. CASE SignExtend(InData(v)) = -1
    <3>1. gpc' = [gpc EXCEPT ![v] = gpc[v] - 1] /\ UNCHANGED program
      BY <1>2, <2>5 DEF handle_hypercall_in
    <3>2. pending_getchar[v] = 1
      <4>1. pending_getchar[v] \in {0, 1}
        BY DEF TypeOK
      <4>2. pending_getchar[v] = 0 => InData(v) = 0
        BY DEF InData
      <4>3. SignExtend(0) = 0
        BY DEF SignExtend
      <4>4. QED
        BY <2>5, <4>1, <4>2, <4>3
    <3>3. gpc[v] > 1 /\ gpc \in [Vcpu -> Nat]
      BY <3>2 DEF PendingBehindOut, GuestsOK
    <3>4. GuestsOK'
      BY <3>1, <3>3 DEF GuestsOK
    <3>5. ASSUME NEW u \in Vcpu PROVE gpc'[u] \in 1 .. Len(program'[u]) + 1
      <4>1. gpc[u] \in 1 .. Len(program[u]) + 1
        BY DEF TypeOK
      <4>2. Len(program[u]) \in Nat
        BY ProgramsAssumption, LenProperties DEF GuestsOK
      <4>3. gpc'[u] = IF u = v THEN gpc[v] - 1 ELSE gpc[u]
        BY <3>1, <3>3
      <4>4. QED
        BY <3>1, <3>3, <4>1, <4>2, <4>3
    <3>6. TypeOK'
      BY <1>0, <2>1, <2>2, <2>3, <3>5
    <3>7. PendingBehindOut'
      BY <2>1, <3>1, <3>3 DEF PendingBehindOut, TypeOK
    <3>8. QED
      BY <2>2, <3>4, <3>6, <3>7
  <2>6. QED
    BY <2>4, <2>5
<1>3. CASE GuestHalts(v) \/ ThreadEnds(v)
  <2>1. /\ UNCHANGED ringvars /\ UNCHANGED stdinvars /\ UNCHANGED popped
        /\ UNCHANGED <<program, gpc, pending_getchar, getchar_result>>
    BY <1>3 DEF GuestHalts, ThreadEnds, guestvars
  <2>2. running' \in [Vcpu -> BOOLEAN] /\ thread' \in [Vcpu -> {"loop", "done"}]
    <3>1. CASE GuestHalts(v)
      BY <3>1 DEF GuestHalts, TypeOK
    <3>2. CASE ThreadEnds(v)
      BY <3>2 DEF ThreadEnds, TypeOK
    <3>3. QED
      BY <1>3, <3>1, <3>2
  <2>3. KBP!TypeOK' /\ QueuesOK' /\ Conserved'
    BY <2>1, ConservedUntouched
  <2>4. TypeOK'
    BY <2>1, <2>2, <2>3, RingTypes, Zenon DEF TypeOK
  <2>5. GuestsOK' /\ PendingBehindOut'
    BY <2>1 DEF GuestsOK, PendingBehindOut
  <2>6. QED
    BY <2>3, <2>4, <2>5
<1>4. QED
  BY <1>1, <1>2, <1>3 DEF VcpuStep

LEMMA ConsoleStep == ConsoleInv /\ [Next]_vars => ConsoleInv'
<1>1. ConsoleInv /\ UNCHANGED vars => ConsoleInv'
  <2> SUFFICES ASSUME ConsoleInv, UNCHANGED vars PROVE ConsoleInv'
    OBVIOUS
  <2>1. /\ UNCHANGED ringvars /\ UNCHANGED stdinvars /\ UNCHANGED popped
        /\ UNCHANGED <<program, gpc, pending_getchar, getchar_result, running, thread>>
    BY DEF vars, guestvars, ctxvars
  <2>2. KBP!TypeOK' /\ QueuesOK' /\ Conserved'
    BY <2>1, ConservedUntouched DEF ConsoleInv
  <2>3. TypeOK'
    BY <2>1, <2>2, RingTypes, Zenon DEF ConsoleInv, TypeOK
  <2>4. QED
    BY <2>1, <2>2, <2>3 DEF ConsoleInv, GuestsOK, PendingBehindOut
<1>2. QED
  BY <1>1, StdinKeeps, VcpuKeeps DEF Next, Done

LEMMA ConsoleInvariant == Spec => []ConsoleInv
  BY InvInit, ConsoleStep, PTL DEF Spec

(* For every guest: the contexts hold what their C types allow, and a      *)
(* guest's instruction pointer stays in its program, retries included.     *)
THEOREM TypeCorrect == Spec => []TypeOK
<1>1. ConsoleInv => TypeOK
  BY DEF ConsoleInv
<1>2. QED
  BY <1>1, ConsoleInvariant, PTL

-----------------------------------------------------------------------------
(* Guests built on user.c.                                                 *)

LEMMA UserInit ==
  ASSUME UserCode
  PROVE  Init => UserInv
<1> SUFFICES ASSUME Init PROVE UserInv
  OBVIOUS
<1>1. got \in [Vcpu -> Seq(Int)]
  BY DEF Init
<1>2. ASSUME NEW v \in Vcpu
      PROVE  /\ pending_getchar[v] = 0 /\ got[v] = << >>
             /\ ~(gpc[v] \in DOMAIN program[v] /\ Instr(v).op = "IN")
  <2>1. pending_getchar[v] = 0 /\ got[v] = << >> /\ gpc[v] = 1 /\ program \in Programs
    BY DEF Init
  <2>2. 1 \in DOMAIN program[v] => program[v][1].op # "IN"
    BY <2>1 DEF UserCode
  <2>3. QED
    BY <2>1, <2>2 DEF Instr
<1>3. Handshake
  BY <1>2 DEF Handshake
<1>4. ASSUME NEW v \in Vcpu PROVE Taken(popped, v) = got[v] \o InFlight(v)
  <2>1. InFlight(v) = << >> /\ got[v] = << >> /\ popped = << >>
    BY <1>2 DEF InFlight, Init
  <2>2. Taken(popped, v) = << >>
    BY <2>1, TakenEmpty
  <2>3. QED
    BY <2>1, <2>2
<1>5. QED
  BY <1>1, <1>3, <1>4 DEF UserInv, Delivered

(* A step that moves no guest, or one guest past an OUT other than GETCHAR,*)
(* leaves the handshakes and what was delivered alone.                     *)
LEMMA UserUntouched ==
  ASSUME UserInv, UNCHANGED <<got, pending_getchar, getchar_result, popped, program>>,
         \A v \in Vcpu : (gpc'[v] \in DOMAIN program[v] /\ program[v][gpc'[v]].op = "IN")
                           <=> (gpc[v] \in DOMAIN program[v] /\ Instr(v).op = "IN")
  PROVE  UserInv'
<1>1. Handshake'
  BY DEF UserInv, Handshake, Instr
<1>2. \A v \in Vcpu : InFlight(v)' = InFlight(v)
  BY DEF InFlight
<1>3. Delivered'
  BY <1>2 DEF UserInv, Delivered
<1>4. QED
  BY <1>1, <1>3 DEF UserInv

(* What user.c implies for the instruction a guest is at.                  *)
LEMMA UserInstr ==
  ASSUME UserCode, GuestsOK, NEW v \in Vcpu, gpc[v] \in DOMAIN program[v]
  PROVE  /\ gpc[v] \in Nat /\ Instr(v) \in Instructions
         /\ Instr(v).op = "IN" => gpc[v] > 1 /\ program[v][gpc[v] - 1].op = "OUT"
         /\ Instr(v) = Out(HC_GETCHAR) =>
              gpc[v] + 1 \in DOMAIN program[v] /\ program[v][gpc[v] + 1].op = "IN"
         /\ gpc[v] + 1 \in DOMAIN program[v] /\ program[v][gpc[v] + 1].op = "IN" =>
              Instr(v) = Out(HC_GETCHAR)
<1>1. program \in Programs /\ gpc[v] \in Nat /\ program[v] \in Seq(Instructions)
  BY ProgramsAssumption DEF GuestsOK
<1>2. Instr(v) \in Instructions
  <2>1. DOMAIN program[v] = 1 .. Len(program[v])
    BY <1>1, LenProperties
  <2>2. QED
    BY <1>1, <2>1, ElementOfSeq DEF Instr
<1>3. Instr(v).op = "IN" => gpc[v] > 1 /\ program[v][gpc[v] - 1] = Out(HC_GETCHAR)
  BY <1>1 DEF UserCode, Instr
<1>4. Instr(v) = Out(HC_GETCHAR) =>
        gpc[v] + 1 \in DOMAIN program[v] /\ program[v][gpc[v] + 1].op = "IN"
  BY <1>1 DEF UserCode, Instr
<1>5. gpc[v] + 1 \in DOMAIN program[v] /\ program[v][gpc[v] + 1].op = "IN" =>
        Instr(v) = Out(HC_GETCHAR)
  <2>1. (gpc[v] + 1) - 1 = gpc[v]
    BY <1>1
  <2> DEFINE n == gpc[v] + 1
  <2>2. n \in DOMAIN program[v] /\ program[v][n].op = "IN" => program[v][n - 1] = Out(HC_GETCHAR)
    <3> HIDE DEF n
    <3>1. QED
      BY <1>1 DEF UserCode
  <2>3. QED
    BY <2>1, <2>2 DEF Instr
<1>6. QED
  BY <1>1, <1>2, <1>3, <1>4, <1>5 DEF Out

(* An OUT GETCHAR: what it takes is in flight until the IN.                *)
LEMMA GetcharDelivers ==
  ASSUME UserCode, ConsoleInv, UserInv, NEW v \in Vcpu, handle_hypercall_out(v), HypercallGetchar(v),
         Instr(v).al = HC_GETCHAR
  PROVE  UserInv'
<1> USE DEF ConsoleInv, UserInv
<1>1. PICK ch \in Typed \cup {KB!Empty} :
        /\ getchar_result' = [getchar_result EXCEPT ![v] = ch]
        /\ popped' = IF ch = KB!Empty THEN popped ELSE Append(popped, <<v, ch>>)
  BY DEF HypercallGetchar
<1>2. /\ pending_getchar' = [pending_getchar EXCEPT ![v] = 1]
      /\ gpc' = [gpc EXCEPT ![v] = gpc[v] + 1] /\ UNCHANGED <<program, got>>
      /\ gpc[v] \in DOMAIN program[v] /\ Instr(v).op = "OUT"
  BY DEF HypercallGetchar, NextInstr, handle_hypercall_out, InGuest
<1>3. /\ pending_getchar \in [Vcpu -> {0, 1}] /\ gpc \in [Vcpu -> Nat]
      /\ getchar_result \in [Vcpu -> Byte \cup {KB!Empty}] /\ got \in [Vcpu -> Seq(Int)]
  BY DEF TypeOK, GuestsOK
<1>4. gpc[v] + 1 \in DOMAIN program[v] /\ program[v][gpc[v] + 1].op = "IN"
  <2>1. Instr(v) = Out(HC_GETCHAR)
    BY <1>2, UserInstr DEF Instructions, Out
  <2>2. QED
    BY <1>2, <2>1, UserInstr
<1>5. ASSUME NEW u \in Vcpu
      PROVE  pending_getchar'[u] = 1 <=> gpc'[u] \in DOMAIN program'[u] /\ Instr(u)'.op = "IN"
  <2>1. CASE u = v
    BY <1>2, <1>3, <1>4, <2>1 DEF Instr
  <2>2. CASE u # v
    BY <1>2, <1>3, <2>2 DEF Handshake, Instr
  <2>3. QED
    BY <2>1, <2>2
<1>6. Handshake'
  BY <1>5 DEF Handshake
<1>7. popped \in Seq(Vcpu \X Byte) /\ \A c \in Typed : <<v, c>> \in Vcpu \X Byte
  <2>1. Vcpu \X Typed \subseteq Vcpu \X Byte
    BY TypedAreBytes
  <2>2. QED
    BY <2>1, SeqMonotonic DEF QueuesOK
<1>8. ASSUME NEW u \in Vcpu, u # v PROVE (Taken(popped, u) = got[u] \o InFlight(u))'
  <2>1. InFlight(u)' = InFlight(u) /\ got'[u] = got[u]
    BY <1>1, <1>2, <1>3, <1>8 DEF InFlight
  <2>2. Taken(popped', u) = Taken(popped, u)
    <3>1. CASE ch = KB!Empty
      BY <1>1, <3>1
    <3>2. CASE ch # KB!Empty
      <4>1. popped' = Append(popped, <<v, ch>>) /\ <<v, ch>> \in Vcpu \X Byte /\ ~Sees(<<v, ch>>, u)
        BY <1>1, <1>7, <1>8, <3>2 DEF Sees
      <4>2. QED
        BY <1>7, <4>1, TakenAppend, Zenon
    <3>3. QED
      BY <3>1, <3>2
  <2>3. QED
    BY <2>1, <2>2 DEF Delivered
<1>9. (Taken(popped, v) = got[v] \o InFlight(v))'
  <2>1. pending_getchar[v] # 1
    BY <1>2 DEF Handshake
  <2>2. InFlight(v) = << >>
    BY <2>1 DEF InFlight
  <2>3. got[v] \in Seq(Int) /\ got'[v] = got[v]
    BY <1>2, <1>3
  <2>4. Taken(popped, v) = got[v]
    BY <2>2, <2>3, ConcatEmptySeq DEF Delivered
  <2>5. pending_getchar'[v] = 1 /\ getchar_result'[v] = ch
    BY <1>1, <1>2, <1>3
  <2>6. InFlight(v)' = IF ch # KB!Empty /\ Visible(ch) THEN <<SignExtend(ch)>> ELSE << >>
    BY <2>5 DEF InFlight
  <2>7. CASE ch = KB!Empty
    <3>1. InFlight(v)' = << >> /\ popped' = popped
      BY <1>1, <2>6, <2>7
    <3>2. QED
      BY <2>3, <2>4, <3>1, ConcatEmptySeq
  <2>8. CASE ch # KB!Empty
    <3>1. popped' = Append(popped, <<v, ch>>) /\ <<v, ch>> \in Vcpu \X Byte
      BY <1>1, <1>7, <2>8
    <3>2. Taken(Append(popped, <<v, ch>>), v) =
            IF Sees(<<v, ch>>, v) THEN Append(Taken(popped, v), SignExtend(<<v, ch>>[2]))
            ELSE Taken(popped, v)
      BY <1>7, <3>1, TakenAppend, Zenon
    <3>3. Taken(popped', v) = IF Visible(ch) THEN Append(got[v], SignExtend(ch)) ELSE got[v]
      BY <2>4, <3>1, <3>2 DEF Sees
    <3>4. CASE Visible(ch)
      <4>1. SignExtend(ch) \in Int
        <5>1. ch \in Byte
          BY <2>8, TypedAreBytes
        <5>2. QED
          BY <5>1 DEF SignExtend, Byte
      <4>2. Append(got[v], SignExtend(ch)) = got[v] \o <<SignExtend(ch)>>
        BY <2>3, <4>1, AppendIsConcat
      <4>3. QED
        BY <2>3, <2>6, <2>8, <3>3, <3>4, <4>2
    <3>5. CASE ~Visible(ch)
      BY <2>3, <2>6, <3>3, <3>5, ConcatEmptySeq
    <3>6. QED
      BY <3>4, <3>5
  <2>9. QED
    BY <2>7, <2>8
<1>10. Delivered'
  BY <1>8, <1>9 DEF Delivered
<1>11. QED
  BY <1>2, <1>3, <1>6, <1>10

(* The IN: the guest gets what was in flight, or asks again.               *)
LEMMA InDelivers ==
  ASSUME UserCode, ConsoleInv, UserInv, NEW v \in Vcpu, handle_hypercall_in(v)
  PROVE  UserInv'
<1> USE DEF ConsoleInv, UserInv
<1> DEFINE ch == SignExtend(InData(v))
<1>1. /\ pending_getchar' = [pending_getchar EXCEPT ![v] = 0]
      /\ UNCHANGED <<getchar_result, popped, program>>
      /\ gpc[v] \in DOMAIN program[v] /\ Instr(v).op = "IN"
  BY DEF handle_hypercall_in, NextInstr, InGuest
<1>2. /\ pending_getchar \in [Vcpu -> {0, 1}] /\ gpc \in [Vcpu -> Nat]
      /\ getchar_result \in [Vcpu -> Byte \cup {KB!Empty}] /\ got \in [Vcpu -> Seq(Int)]
  BY DEF TypeOK, GuestsOK
<1>3. pending_getchar[v] = 1
  BY <1>1 DEF Handshake
<1>4. \/ ch = -1 /\ gpc' = [gpc EXCEPT ![v] = gpc[v] - 1] /\ UNCHANGED got
      \/ ch # -1 /\ gpc' = [gpc EXCEPT ![v] = gpc[v] + 1] /\ got' = [got EXCEPT ![v] = Append(got[v], ch)]
  BY DEF handle_hypercall_in, NextInstr
<1>5. InFlight(v) = IF ch = -1 THEN << >> ELSE <<ch>>
  <2>1. InData(v) = IF getchar_result[v] = -1 THEN 255 ELSE getchar_result[v]
    BY <1>3 DEF InData
  <2>2. SignExtend(255) = -1
    BY DEF SignExtend
  <2>3. CASE getchar_result[v] = -1
    BY <1>3, <2>1, <2>2, <2>3 DEF InFlight, KB!Empty
  <2>4. CASE getchar_result[v] # -1
    BY <1>3, <2>1, <2>4 DEF InFlight, KB!Empty, Visible
  <2>5. QED
    BY <2>3, <2>4
<1>6. pending_getchar'[v] = 0 /\ InFlight(v)' = << >>
  BY <1>1, <1>2 DEF InFlight
<1>7. ASSUME NEW u \in Vcpu, u # v
      PROVE  /\ pending_getchar'[u] = pending_getchar[u] /\ gpc'[u] = gpc[u] /\ got'[u] = got[u]
             /\ InFlight(u)' = InFlight(u)
  <2>1. pending_getchar'[u] = pending_getchar[u] /\ gpc'[u] = gpc[u] /\ got'[u] = got[u]
    BY <1>1, <1>2, <1>4, <1>7
  <2>2. QED
    BY <1>1, <2>1 DEF InFlight
<1>8. ~(gpc'[v] \in DOMAIN program[v] /\ program[v][gpc'[v]].op = "IN")
  <2>0. /\ gpc[v] \in Nat /\ gpc[v] > 1 /\ program[v][gpc[v] - 1].op = "OUT"
        /\ gpc[v] + 1 \in DOMAIN program[v] /\ program[v][gpc[v] + 1].op = "IN" =>
             Instr(v) = Out(HC_GETCHAR)
    BY <1>1, UserInstr
  <2>1. CASE gpc' = [gpc EXCEPT ![v] = gpc[v] - 1]
    BY <1>2, <2>0, <2>1
  <2>2. CASE gpc' = [gpc EXCEPT ![v] = gpc[v] + 1]
    <3>1. Instr(v) # Out(HC_GETCHAR)
      BY <1>1 DEF Out
    <3>2. gpc'[v] = gpc[v] + 1
      BY <1>2, <2>2
    <3>3. QED
      BY <2>0, <3>1, <3>2
  <2>3. QED
    BY <1>4, <2>1, <2>2
<1>9. Handshake'
  <2>1. ASSUME NEW u \in Vcpu
        PROVE  pending_getchar'[u] = 1 <=> gpc'[u] \in DOMAIN program'[u] /\ Instr(u)'.op = "IN"
    <3>1. CASE u = v
      BY <1>1, <1>6, <1>8, <3>1 DEF Instr
    <3>2. CASE u # v
      BY <1>1, <1>7, <3>2 DEF Handshake, Instr
    <3>3. QED
      BY <3>1, <3>2
  <2>2. QED
    BY <2>1 DEF Handshake
<1>10. /\ got' \in [Vcpu -> Seq(Int)]
       /\ got'[v] = got[v] \o InFlight(v)
  <2>0. got[v] \in Seq(Int)
    BY <1>2
  <2>1. CASE ch = -1
    <3>1. got' = got /\ InFlight(v) = << >>
      BY <1>4, <1>5, <2>1
    <3>2. QED
      BY <1>2, <2>0, <3>1, ConcatEmptySeq
  <2>2. CASE ch # -1
    <3>1. ch \in Int
      <4>1. InData(v) \in Byte
        BY <1>2 DEF InData, KB!Empty, Byte
      <4>2. \A b \in Byte : SignExtend(b) \in Int
        BY DEF SignExtend, Byte
      <4>3. QED
        BY <4>1, <4>2, Zenon
    <3>2. got' = [got EXCEPT ![v] = Append(got[v], ch)] /\ InFlight(v) = <<ch>>
      BY <1>4, <1>5, <2>2
    <3> HIDE DEF ch
    <3>3. Append(got[v], ch) \in Seq(Int) /\ Append(got[v], ch) = got[v] \o <<ch>>
      BY <2>0, <3>1, AppendProperties, AppendIsConcat
    <3>4. QED
      BY <1>2, <3>2, <3>3
  <2>3. QED
    BY <2>1, <2>2
<1>11. ASSUME NEW u \in Vcpu PROVE (Taken(popped, u) = got[u] \o InFlight(u))'
  <2>1. Taken(popped', u) = Taken(popped, u)
    BY <1>1
  <2>2. CASE u = v
    <3>1. got'[v] \in Seq(Int)
      BY <1>10
    <3>2. got'[v] \o InFlight(v)' = got'[v]
      BY <1>6, <3>1, ConcatEmptySeq
    <3>3. QED
      BY <1>10, <2>1, <2>2, <3>2 DEF Delivered
  <2>3. CASE u # v
    BY <1>7, <2>1, <2>3 DEF Delivered
  <2>4. QED
    BY <2>2, <2>3
<1>12. QED
  BY <1>9, <1>10, <1>11 DEF Delivered

LEMMA UserStep ==
  ASSUME UserCode, ConsoleInv, UserInv, [Next]_vars
  PROVE  UserInv'
<1> USE DEF ConsoleInv
<1>1. ASSUME UNCHANGED <<got, pending_getchar, getchar_result, popped, program, gpc>>
      PROVE  UserInv'
  <2>1. UNCHANGED <<got, pending_getchar, getchar_result, popped, program>>
    BY <1>1
  <2>2. \A v \in Vcpu : (gpc'[v] \in DOMAIN program[v] /\ program[v][gpc'[v]].op = "IN")
                           <=> (gpc[v] \in DOMAIN program[v] /\ Instr(v).op = "IN")
    BY <1>1 DEF Instr
  <2>3. QED
    BY <2>1, <2>2, UserUntouched
<1>2. CASE Type \/ StdinStep \/ Done \/ UNCHANGED vars
  BY <1>1, <1>2 DEF Type, StdinStep, StdinRead, StdinPush, Done, vars, guestvars, ctxvars
<1>3. ASSUME NEW v \in Vcpu, GuestHalts(v) \/ ThreadEnds(v) PROVE UserInv'
  BY <1>1, <1>3 DEF GuestHalts, ThreadEnds, guestvars
<1>4. ASSUME NEW v \in Vcpu, handle_hypercall_in(v) PROVE UserInv'
  BY <1>4, InDelivers
<1>5. ASSUME NEW v \in Vcpu, handle_hypercall_out(v) PROVE UserInv'
  <2>0. /\ gpc[v] \in DOMAIN program[v] /\ Instr(v).op = "OUT" /\ UNCHANGED got
        /\ \/ Instr(v).al = HC_EXIT /\ HypercallExit(v)
           \/ Instr(v).al = HC_PUTCHAR /\ HypercallPutchar(v)
           \/ Instr(v).al = HC_GETCHAR /\ HypercallGetchar(v)
           \/ HypercallUnknown(v)
    BY <1>5 DEF handle_hypercall_out, InGuest
  <2>1. CASE Instr(v).al = HC_GETCHAR /\ HypercallGetchar(v)
    BY <1>5, <2>1, GetcharDelivers
  <2>2. CASE HypercallUnknown(v)
    BY <1>1, <2>0, <2>2 DEF HypercallUnknown
  <2>3. CASE \/ Instr(v).al = HC_EXIT /\ HypercallExit(v)
             \/ Instr(v).al = HC_PUTCHAR /\ HypercallPutchar(v)
    <3>1. /\ UNCHANGED <<got, pending_getchar, getchar_result, popped, program>>
          /\ gpc' = [gpc EXCEPT ![v] = gpc[v] + 1]
      BY <2>0, <2>3 DEF HypercallExit, HypercallPutchar, NextInstr, ctxvars
    <3>2. Instr(v) # Out(HC_GETCHAR)
      BY <2>3 DEF Out, HC_EXIT, HC_PUTCHAR, HC_GETCHAR
    <3>3. ~(gpc[v] + 1 \in DOMAIN program[v] /\ program[v][gpc[v] + 1].op = "IN")
      BY <2>0, <3>2, UserInstr
    <3>4. gpc \in [Vcpu -> Nat]
      BY DEF GuestsOK
    <3>5. ASSUME NEW u \in Vcpu
          PROVE  (gpc'[u] \in DOMAIN program[u] /\ program[u][gpc'[u]].op = "IN")
                   <=> (gpc[u] \in DOMAIN program[u] /\ Instr(u).op = "IN")
      <4>1. CASE u = v
        BY <2>0, <3>1, <3>3, <3>4, <4>1
      <4>2. CASE u # v
        BY <3>1, <3>4, <4>2 DEF Instr
      <4>3. QED
        BY <4>1, <4>2
    <3>6. QED
      BY <3>1, <3>5, UserUntouched
  <2>4. QED
    BY <2>0, <2>1, <2>2, <2>3
<1>6. QED
  BY <1>2, <1>3, <1>4, <1>5 DEF Next, VcpuStep

(* For every guest and every interleaving of the threads: what entered the *)
(* ring was taken out of it in that order or is still in it.               *)
THEOREM RingConserves == Spec => []Conserved
<1>1. ConsoleInv => Conserved
  BY DEF ConsoleInv
<1>2. QED
  BY <1>1, ConsoleInvariant, PTL

(* For guests that read through user.c's getchar(), however many vCPUs run *)
(* them: every character that entered the ring is returned to one guest, in*)
(* flight between that guest's OUT and IN, or still buffered, in order.    *)
THEOREM NothingLost ==
  ASSUME UserCode
  PROVE  Spec => []NothingLostOrRepeated
<1>1. ConsoleInv /\ UserInv /\ [Next]_vars => UserInv'
  BY UserStep
<1>2. Init => UserInv
  BY UserInit
<1>3. ConsoleInv /\ UserInv => NothingLostOrRepeated
  BY DEF ConsoleInv, UserInv, Conserved, Delivered, CharsOf, NothingLostOrRepeated
<1>4. QED
  BY <1>1, <1>2, <1>3, ConsoleInvariant, PTL DEF Spec
=============================================================================
