----------------------------- MODULE Disassembler -----------------------------
(***************************************************************************)
(* Z80Disassembler::source(), as far as the debugger goes by it: how many  *)
(* bytes it takes for one instruction.  The text it makes of them is left  *)
(* out.  Its table of instructions is not the processor's: of an entry's   *)
(* operands only what is read from the code is told here.                  *)
(***************************************************************************)
EXTENDS CpuRam

\* The table's operands WORD and ATWORD, BYTE, ATBYTE and OFFSET, and those that
\* are printed from the entry itself.
Wide == 2
Narrow == 1
Printed == 0

\* 00 to 3F: OFFSET in the first column but for NOP and EX AF,AF', then LD rr,nn,
\* LD to and from (nn), LD r,n.
LowOperand(n) ==
  CASE n % 8 = 0 /\ n >= 16 -> Narrow
    [] n % 16 = 1 -> Wide
    [] n % 8 = 2 /\ n >= 32 -> Wide
    [] n % 8 = 6 -> Narrow
    [] OTHER -> Printed

\* C0 to FF: JP and CALL, OUT and IN, the operations on a byte; CB and ED have an
\* entry of their own, DEFB with a byte.
HighOperand(n) ==
  CASE n % 8 \in {2, 4} \/ n \in {195, 205} -> Wide
    [] n % 8 = 6 \/ n \in {203, 211, 219, 237} -> Narrow
    [] OTHER -> Printed

\* 40 to BF are all registers and ATRX.
MainOperand(n) ==
  CASE n < 64 -> LowOperand(n)
    [] n >= 192 -> HighOperand(n)
    [] OTHER -> Printed

\* CB 00 to CB FF: registers, ATRX, and the numbers of bits.
CBOperand(n) == Printed

\* ED 00 to ED FF: only LD to and from (nn) read anything.
EDOperand(n) == IF n \in {67, 83, 115, 75, 91, 123} THEN Wide ELSE Printed

\* Mutant of HasATRX: the arithmetic on (HL) is forgotten.
HasATRXMoves(n) ==
  \/ n \in {2, 10, 18, 26, 52, 53, 54, 227, 233}
  \/ n \in 64..127 \ {118} /\ (n % 8 = 6 \/ (n \div 8) % 8 = 6)

\* The entries with an operand ATRX, of any register: (BC), (DE) and (SP) too.
HasATRX(n) ==
  \/ n \in {2, 10, 18, 26, 52, 53, 54, 227, 233}
  \/ n \in 64..127 \ {118} /\ (n % 8 = 6 \/ (n \div 8) % 8 = 6)
  \/ n \in 128..191 /\ n % 8 = 6

\* source() at pc: the address after the instruction, uncut.
source(mem, pc) ==
  LET n == read(mem, pc)
      m == read(mem, pc + 1)
      index == n \in {221, 253}
  IN  CASE n = 203 -> pc + 2 + CBOperand(m)
        [] n = 237 -> pc + 2 + EDOperand(m)
        [] index /\ m = 233 -> pc + 2
        [] index /\ m # 233 /\ HasATRX(m) -> pc + 3 + MainOperand(m)
        [] index /\ m = 203 -> pc + 4 + CBOperand(read(mem, pc + 3))
        [] index /\ m \notin {203, 233} /\ ~HasATRX(m) -> pc + 2 + MainOperand(m)
        [] OTHER -> pc + 1 + MainOperand(n)
===============================================================================
