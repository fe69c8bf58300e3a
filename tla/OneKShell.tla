----------------------------- MODULE OneKShell -----------------------------
(***************************************************************************)
(* The 1K OS shell (src/kvm-vmm-x86/os-1k/shell.c) with the line editor of *)
(* user.c and printf's %d of common.c, against a user who types lines.     *)
(* Characters are ASCII codes; the hypercall console that carries them is  *)
(* HypercallConsole.                                                       *)
(***************************************************************************)
EXTENDS Integers, Sequences, SequencesExt

CONSTANTS
  MenuBuf,   \* sizeof(input) in main
  LineBuf,   \* sizeof(line) in the echo and calculator demos
  INT_MAX,   \* the largest int
  Typed      \* Typed[mode]: what the user may type before Enter

Modes == {"menu", "echo", "calculator"}

ASSUME ShellAssumption ==
  /\ MenuBuf \in Nat \ {0, 1} /\ LineBuf \in Nat \ {0, 1} /\ INT_MAX \in Nat \ {0}
  /\ \A m \in Modes : Typed[m] \subseteq Seq((1..127) \ {10, 13})

VARIABLES
  smode,     \* off, menu, echo, calculator, exited or fault
  keys,      \* what was typed and not yet read; empty between two lines
  buf,       \* readline's buffer up to pos
  full,      \* readline discards the rest of the line
  last       \* the last line: mode, what was typed, what readline made of it, the answer

shellVars == <<smode, keys, buf, full, last>>

\* What the shell prints in answer to a line: which message, and its %d or %s.
Says(what, text) == [says |-> what, text |-> text]
Nothing == Says("nothing", << >>)

NoLine == [mode |-> "off", typed |-> << >>, line |-> << >>, answer |-> Nothing]

ShellInit ==
  /\ smode = "off"
  /\ keys = << >> /\ buf = << >> /\ full = FALSE
  /\ last = NoLine

NL == 10
CR == 13
Backspaces == {8, 127}
Printable == 32..126
Space == 32
Quit == <<113, 117, 105, 116>>   \* "quit"
Ops == {43, 45, 42, 47}          \* + - * /
Digit == 48..57

bufsz == IF smode = "menu" THEN MenuBuf ELSE LineBuf

-----------------------------------------------------------------------------
(* printf("%d").  The magnitude is unsigned, so that of the smallest int   *)
(* is representable.                                                       *)

Pow10[k \in 0 .. INT_MAX + 1] == IF k = 0 THEN 1 ELSE 10 * Pow10[k - 1]

\* How often the first loop turns before it has the divisor of the first digit.  That
\* divisor is at most m, unless it is 1, so computing it overflows nothing.
Turns(m) ==
  CHOOSE k \in 0 .. m : m \div Pow10[k] <= 9 /\ \A j \in 0 .. k - 1 : m \div Pow10[j] > 9

\* The second: a digit, the rest, the next divisor.
Digits(m) ==
  LET top == Turns(m)
      magnitude[k \in 0 .. top] == IF k = 0 THEN m ELSE magnitude[k - 1] % Pow10[top + 1 - k]
  IN [k \in 1 .. top + 1 |-> 48 + (magnitude[k - 1] \div Pow10[top + 1 - k])]

Decimal(value) == IF value < 0 THEN <<45>> \o Digits(-value) ELSE Digits(value)

-----------------------------------------------------------------------------
(* The calculator.  line[i] past the end is the terminating NUL.           *)

INT_MIN == -INT_MAX - 1
Ints == INT_MIN .. INT_MAX

\* Signed overflow: the compiled code wraps around.
Wrap(n) == ((n - INT_MIN) % (2 * (INT_MAX + 1))) + INT_MIN

At(line, k) == IF k <= Len(line) THEN line[k] ELSE 0

\* The first position from k on whose character is not in S.
Skip(line, k, S) == Min({j \in k .. Len(line) + 1 : At(line, j) \notin S})

\* An optional minus sign, then digits, possibly none: value and end.
Number(line, k) ==
  LET first == IF At(line, k) = 45 THEN k + 1 ELSE k
      end == Skip(line, first, Digit)
      num[j \in 0 .. end - 1] ==
        IF j < first THEN 0 ELSE Wrap(num[j - 1] * 10 + (At(line, j) - 48))
  IN [value |-> IF first > k THEN Wrap(-num[end - 1]) ELSE num[end - 1], end |-> end]

Abs(n) == IF n < 0 THEN -n ELSE n

\* Mutant: division rounds down.
QuotientDown(a, b) == IF b > 0 THEN a \div b ELSE (-a) \div (-b)

\* C division, towards zero.
Quotient(a, b) ==
  LET q == Abs(a) \div Abs(b)
  IN IF (a < 0) = (b < 0) THEN q ELSE -q

\* INT_MIN / -1 raises #DE, for which the guest has no handler.
Calculate(line) ==
  LET n1 == Number(line, Skip(line, 1, {Space}))
      o == Skip(line, n1.end, {Space})
      op == At(line, o)
      n2 == Number(line, Skip(line, o + 1, {Space}))
      a == n1.value
      b == n2.value
      Result(n) == Says("result", Decimal(n))
  IN CASE op \notin Ops -> Says("invalid operator", << >>)
       [] op = 43 -> Result(Wrap(a + b))
       [] op = 45 -> Result(Wrap(a - b))
       [] op = 42 -> Result(Wrap(a * b))
       [] op = 47 /\ b = 0 -> Says("division by zero", << >>)
       [] op = 47 /\ a = INT_MIN /\ b = -1 -> Says("fault", << >>)
       [] OTHER -> Result(Quotient(a, b))

-----------------------------------------------------------------------------
(* The shell reads and answers.                                            *)

\* The next turn of the loop: the menu or "$ " or "Calculate: ".
Prompt ==
  /\ smode \in Modes /\ keys = << >> /\ last # NoLine
  /\ last' = NoLine
  /\ UNCHANGED <<smode, keys, buf, full>>

\* A user types a line and presses Enter, which is LF from a pipe and CR
\* from a terminal in raw mode.
Type ==
  /\ smode \in Modes /\ keys = << >> /\ last = NoLine
  /\ \E t \in Typed[smode], enter \in {NL, CR} :
       /\ keys' = Append(t, enter)
       /\ last' = [mode |-> smode, typed |-> t, line |-> << >>, answer |-> Nothing]
  /\ UNCHANGED <<smode, buf, full>>

Go(mode, what) == [to |-> mode, answer |-> Says(what, << >>)]

\* The first character chooses.  The demos 1, 2, 4, 5, 7, 8 and 9 print and
\* come back.
main(line) ==
  CASE line = << >> -> Go("menu", "menu")
    [] line # << >> ->
         CASE line[1] = 48 -> Go("exited", "exit")
           [] line[1] = 51 -> Go("echo", "echo")
           [] line[1] = 54 -> Go("calculator", "calculator")
           [] line[1] \in Digit \ {48, 51, 54} -> Go("menu", "demo")
           [] OTHER -> Go("menu", "unknown option")

\* A line that filled the buffer gets a warning first.
echo_demo(line) ==
  IF line = Quit THEN Go("menu", "quit")
  ELSE [to |-> "echo", answer |-> Says("echo", line)]

calculator_demo(line) ==
  IF line = <<113>> THEN Go("menu", "quit")   \* "q"
  ELSE LET answer == Calculate(line)
       IN [to |-> IF answer.says = "fault" THEN "fault" ELSE "calculator", answer |-> answer]

Answer(line) ==
  CASE smode = "menu" -> main(line)
    [] smode = "echo" -> echo_demo(line)
    [] smode = "calculator" -> calculator_demo(line)

\* readline returns and its caller goes on to the next prompt.
Return ==
  LET a == Answer(buf)
  IN /\ smode' = a.to
     /\ last' = [last EXCEPT !.line = buf, !.answer = a.answer]
     /\ buf' = << >> /\ full' = FALSE

\* Mutant: Enter of a terminal in raw mode is not recognised.
ReadlineNoCr ==
  /\ keys # << >> /\ keys' = Tail(keys)
  /\ LET ch == Head(keys)
     IN \/ ch = NL /\ Return
        \/ /\ ch # NL /\ ~full
           /\ buf' = IF ch \in Printable THEN Append(buf, ch) ELSE buf
           /\ full' = (Len(buf') >= bufsz - 1)
           /\ UNCHANGED <<smode, last>>
        \/ ch # NL /\ full /\ UNCHANGED <<smode, buf, full, last>>

\* Mutant: a full line can still be edited.
ReadlineEditsFull ==
  /\ keys # << >> /\ keys' = Tail(keys)
  /\ LET ch == Head(keys)
     IN \/ ch \in {NL, CR} /\ Return
        \/ /\ ch \in Backspaces
           /\ buf' = IF buf = << >> THEN buf ELSE Front(buf)
           /\ UNCHANGED <<smode, full, last>>
        \/ /\ ch \notin {NL, CR} \cup Backspaces
           /\ buf' = IF ch \in Printable /\ Len(buf) < bufsz - 1 THEN Append(buf, ch) ELSE buf
           /\ UNCHANGED <<smode, full, last>>

\* One character.  A full buffer is final: the rest of the line is
\* discarded, backspaces too.
readline ==
  /\ keys # << >> /\ keys' = Tail(keys)
  /\ LET ch == Head(keys)
     IN \/ ch \in {NL, CR} /\ Return
        \/ /\ ch \in Backspaces /\ ~full
           /\ buf' = IF buf = << >> THEN buf ELSE Front(buf)
           /\ UNCHANGED <<smode, full, last>>
        \/ /\ ch \in Printable /\ ~full
           /\ buf' = Append(buf, ch)
           /\ full' = (Len(buf') = bufsz - 1)
           /\ UNCHANGED <<smode, last>>
        \/ /\ ch \notin {NL, CR} /\ (full \/ ch \notin Printable \cup Backspaces)
           /\ UNCHANGED <<smode, buf, full, last>>

ShellNext == Prompt \/ Type \/ readline

-----------------------------------------------------------------------------
(* Properties.                                                             *)

Answered == keys = << >> /\ last.mode \in Modes

\* How many of the keystrokes after k, up to j, are in S.
Strokes(t, k, j, S) == Cardinality({x \in k + 1 .. j : t[x] \in S})

\* The characters of t that no backspace took back: one goes when at some
\* point there were more backspaces than characters after it.
Kept(t) ==
  {k \in 1 .. Len(t) :
     /\ t[k] \in Printable
     /\ \A j \in k .. Len(t) : Strokes(t, k, j, Backspaces) <= Strokes(t, k, j, Printable)}

\* Position of k among those of K, and the position that is the n-th.
Rank(K, k) == Cardinality({x \in K : x <= k})
Nth(K, n) == CHOOSE k \in K : Rank(K, k) = n

\* What is left of t, in order.
Edited(t) == [n \in 1 .. Cardinality(Kept(t)) |-> t[Nth(Kept(t), n)]]

(* The line a program gets is the line as its user edited it: of what was  *)
(* typed, the characters not taken back, up to the moment at which they    *)
(* filled the buffer.                                                      *)
LinesAsTyped ==
  Answered =>
    LET t == last.typed
        size == IF last.mode = "menu" THEN MenuBuf ELSE LineBuf
        fills == {k \in 0 .. Len(t) : Len(Edited(SubSeq(t, 1, k))) = size - 1}
    IN last.line = Edited(IF fills = {} THEN t ELSE SubSeq(t, 1, Min(fills)))

\* t[i..j] is a number: digits, after a minus sign or not.
FirstDigit(t, i) == IF t[i] = 45 THEN i + 1 ELSE i
IsNumber(t, i, j) ==
  i <= j /\ FirstDigit(t, i) <= j /\ \A x \in FirstDigit(t, i) .. j : t[x] \in Digit

\* The number that it is.
Value(t, i, j) ==
  LET upTo[x \in 0 .. j] == IF x < FirstDigit(t, i) THEN 0 ELSE 10 * upTo[x - 1] + (t[x] - 48)
  IN IF t[i] = 45 THEN -upTo[j] ELSE upTo[j]

\* In t[i..j], a number from x to y and spaces around it.
Padded(t, i, j, x, y) ==
  IsNumber(t, x, y) /\ \A z \in (i .. x - 1) \cup (y + 1 .. j) : t[z] = Space

\* The number that t[i..j] is but for spaces, if it is one and an int.
Operand(t, i, j) ==
  Ints \cap UNION {{Value(t, x, y) : y \in {y \in x .. j : Padded(t, i, j, x, y)}} : x \in i .. j}

\* The text is a number without superfluous zeros or sign: n.
Spells(text, n) ==
  /\ IsNumber(text, 1, Len(text)) /\ Value(text, 1, Len(text)) = n
  /\ text[1] = 45 <=> n < 0
  /\ text[FirstDigit(text, 1)] = 48 => n = 0 /\ Len(text) = 1

Prints(answer, n) == answer.says = "result" /\ Spells(answer.text, n)

\* q is a / b: the remainder is less than b and has the sign of a.
IsQuotient(q, a, b) == Abs(a - q * b) < Abs(b) /\ (q * b = a \/ (a - q * b < 0 <=> a < 0))

(* The calculator is right: if an int can hold the numbers and the result, *)
(* the answer to "a op b" is the result, in decimal, wherever the line has *)
(* spaces and whatever zeros the numbers start with.  Division is towards  *)
(* zero, and by zero it is refused.                                        *)
CalculatorCorrect ==
  Answered /\ last.mode = "calculator" =>
    \A k \in 1 .. Len(last.line) : last.line[k] \in Ops =>
      \A a \in Operand(last.line, 1, k - 1), b \in Operand(last.line, k + 1, Len(last.line)) :
        LET op == last.line[k]
            answer == last.answer
        IN /\ op = 43 /\ a + b \in Ints => Prints(answer, a + b)
           /\ op = 45 /\ a - b \in Ints => Prints(answer, a - b)
           /\ op = 42 /\ a * b \in Ints => Prints(answer, a * b)
           /\ op = 47 /\ b = 0 => answer.says = "division by zero"
           /\ op = 47 /\ b # 0 /\ ~(a = INT_MIN /\ b = -1) =>
                \E q \in Ints : IsQuotient(q, a, b) /\ Prints(answer, q)

(* Every line is answered, however it was ended and however long it is:    *)
(* the shell is back at a prompt, or has stopped, with that line answered. *)
LineAnswered == keys # << >> ~> (keys = << >> /\ last.answer # Nothing)
=============================================================================
