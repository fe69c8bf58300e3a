------------------------- MODULE MCKeyboardBuffer -------------------------
(* KeyboardBuffer on a ring of a few slots: it fills, wraps around and     *)
(* drops characters within a few steps.                                    *)
EXTENDS KeyboardBuffer

MCSize == 4
MCChars == {97, 255}
=============================================================================
