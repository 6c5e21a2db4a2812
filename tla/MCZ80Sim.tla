------------------------------- MODULE MCZ80Sim -------------------------------
(* Programs that set a mode, enable interrupts and run into repeated         *)
(* instructions, with two handlers, for TLC.                                 *)
EXTENDS Z80Sim

First == {"IM 1", "IM 2", "EI", "NOP"}
Second == {"EI", "DI", "LD A,I", "LDIR", "CPIR"}
Third == {"EI", "IN", "LDDR", "CPDR"}

Handlers == {<<"IN", "EI", "RETI">>, <<"EI", "RETN">>}

MCPrograms ==
  {<<f, "EI", s, t>> \o h : f \in First, s \in Second, t \in Third, h \in Handlers}
==============================================================================
