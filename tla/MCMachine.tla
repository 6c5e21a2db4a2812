------------------------------ MODULE MCMachine -------------------------------
(***************************************************************************)
(* Small instances of Machine: four bytes to each half of the addresses,   *)
(* programs of one or two segments of two bytes at addresses that stand    *)
(* for 0, 0x80 or 0x100, and 0xD1E0, and a few files EEPROM.DAT.           *)
(***************************************************************************)
EXTENDS Machine

CONSTANTS absent, noDat

MCStrAddr == [p \in Program |-> CASE p = "CPM22" -> 5
                                  [] p \in {"FORTH13", "QPMLDR", "CPMLDR"} -> 3
                                  [] OTHER -> 0]

\* Two programs end with a short segment, the others with a whole one.
MCLength == [p \in Program |-> IF p \in {"CPM22", "iLoad"} THEN 3 ELSE 2]

Dat(boot, autoexec, clock, set, dbg, auto) ==
  [c \in Cell |-> CASE c = bootModeAddr     -> boot
                    [] c = autoexecFlagAddr -> autoexec
                    [] c = clockModeAddr    -> clock
                    [] c = diskSetAddr      -> set
                    [] c = debugModeAddr    -> dbg
                    [] c = autoBootModeAddr -> auto]

\* No file; a blank one; one that is too short; one whose every setting is invalid;
\* one that starts iLoad by itself, and one that starts QP/M in the debugger.
MCStored == {noDat, Blank, Dat(3, 1, absent, absent, absent, absent),
             Dat(5, 2, 2, maxDiskSet, 2, 2), Dat(4, 0, 0, 0, 0, 1), Dat(2, 0, 1, 1, 1, 1)}

MCContent == {Unwritten, JP, <<"Z80", 0>>} \cup {<<"low", a>> : a \in Addr} \cup {<<"high", 0>>}
               \cup {<<p, i>> : p \in Program, i \in 0..2}

MCGuestContent == {<<"Z80", 0>>}

===============================================================================
