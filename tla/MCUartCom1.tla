---- MODULE MCUartCom1 ----
(* TLC instances of UartCom1: three characters for a ring that holds two, *)
(* read in batches of at most two, and two characters of output.          *)
EXTENDS UartCom1

MCInputs == {<<>>, <<97>>, <<97, 98, 99>>}
MCOutput == <<120, 121>>
====
