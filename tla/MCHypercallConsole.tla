------------------------ MODULE MCHypercallConsole ------------------------
(* HypercallConsole with a ring that holds two characters and guests that  *)
(* read more or less than what is typed.                                   *)
EXTENDS HypercallConsole

TwoVcpus == {0, 1}
OneVcpu == {0}

getchar == <<Out(HC_GETCHAR), InRetry>>
putchar == <<Out(HC_PUTCHAR)>>
exit == <<Out(HC_EXIT)>>

\* Guests built on os-1k/user.c: one echoes two characters and exits, the
\* other reads three and halts, or calls readfile() after its first one.
SYS_READFILE == 3

echo == getchar \o putchar \o getchar \o putchar \o exit
reader == getchar \o getchar \o getchar \o <<Hlt>>
filer == getchar \o <<Out(SYS_READFILE)>> \o getchar \o exit

UserPrograms == {0 :> echo @@ 1 :> reader, 0 :> echo @@ 1 :> filer}

\* guest/hctest.S: "Hello!" (one character here), newline, a number, exit.
HC_PUTNUM == 2
HC_NEWLINE == 3

HctestProgram ==
  {0 :> (putchar \o <<Out(HC_NEWLINE), Out(HC_PUTNUM), Out(HC_NEWLINE)>> \o exit \o <<Hlt>>)}

\* Plain ASCII, a byte above 127, and 0xFF among them.
TypedLines == {<<97, 98, 200, 99>>, <<255, 97, 200, 98>>, <<97, 255, 98, 99, 200>>}
NothingTyped == {<< >>}
=============================================================================
