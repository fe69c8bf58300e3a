------------------------------ MODULE MCOneKOs -----------------------------
(* OneKOs with buffers of 4 and 12 characters, 8-bit integers and what a   *)
(* user might type.                                                        *)
EXTENDS OneKOs

\* All sequences over S of up to n characters.
UpTo(S, n) == UNION {[1..k -> S] : k \in 0..n}

A == 97

\* Choices, backspaces and a control character, also beyond the buffer.
MenuLines == UpTo({48, 51, 8}, 5) \cup {<<c>> : c \in 49..57} \cup {<<A>>, <<27, 54>>, <<54, 127>>}

EchoLines ==
  UpTo({A, 8, 9}, 3)
    \cup {Quit, <<113, 117, 105, 116, 116, 8>>, <<113, 117, 105>>}
    \cup {[k \in 1..n |-> A] : n \in 10..13}
    \cup {[k \in 1..13 |-> IF k = 12 THEN 8 ELSE A], [k \in 1..13 |-> IF k = 11 THEN 127 ELSE A]}

Operands == {-128, -99, -7, -1, 0, 1, 2, 10, 127}

CalculatorLines ==
  {Decimal(a) \o <<op>> \o Decimal(b) : a \in Operands, b \in Operands, op \in Ops}
    \cup {<<Space, 55, Space, 42, Space, 45, 56>>, <<55, Space, 42, Space, 45, 56>>,
          <<Space, 48, 48, 55, Space, Space, 45, 45, 48, 56, Space>>, <<48, 47, 45, 48>>,
          <<113>>, <<113, 113>>, << >>, <<43>>, <<49, 50, 56, 43, 49>>, <<49, 43, 50, 43, 51>>}

Lines == [m \in Modes |-> CASE m = "menu" -> MenuLines
                            [] m = "echo" -> EchoLines
                            [] m = "calculator" -> CalculatorLines]
=============================================================================
