------------------------------- MODULE CpuRam -------------------------------
(***************************************************************************)
(* The memory as the processor and the debugger address it: 64K bytes, of  *)
(* which a memory is the function on those that are not Blank.  Which bank *)
(* answers is the business of BankedRam.                                   *)
(***************************************************************************)
EXTENDS Integers

CONSTANT Blank      \* what the bytes hold that no program has touched

ASSUME BlankAssumption == Blank \in 0..255

\* An address is an unsigned short.
read(mem, a) == LET w == a % 65536 IN IF w \in DOMAIN mem THEN mem[w] ELSE Blank
write(mem, a, b) ==
  LET w == a % 65536 IN [v \in DOMAIN mem \cup {w} |-> IF v = w THEN b ELSE mem[v]]

\* getdata(a) | getdata(a + 1) << 8, and the two bytes of w stored there.
readWord(mem, a) == read(mem, a) + 256 * read(mem, a + 1)
writeWord(mem, a, w) == write(write(mem, a, w % 256), a + 1, w \div 256)
=============================================================================
