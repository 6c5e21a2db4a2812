------------------------------ MODULE Z80Decode ------------------------------
(***************************************************************************)
(* The instruction tables of Z80CPU.cpp: sInstr, sInstrCB and sInstrED.    *)
(* An entry is a family of operations and its operands, [op, x, y]; the    *)
(* code has an enumerator for each form of operand, here the operand tells *)
(* the form: a register, "(HL)", "(BC)", "(DE)", "n" for a byte and "(nn)" *)
(* for a word after the opcode; "" where there is none.  The families keep *)
(* the names of the enumerators.                                           *)
(***************************************************************************)
EXTENDS Integers, Sequences

Opcode == 0..255

R8(n) == <<"B", "C", "D", "E", "H", "L", "(HL)", "A">>[n + 1]
RX(n) == <<"BC", "DE", "HL", "SP">>[n + 1]
CC(n) == <<"NZ", "Z", "NC", "C", "PO", "PE", "P", "M">>[n + 1]
Instr(op, x, y) == [op |-> op, x |-> x, y |-> y]

\* The three digits of an opcode in base 4, 8, 8 are what the tables go by.
Row(n) == (n \div 8) % 8
Column(n) == n % 8
Pair(n) == RX((n \div 16) % 4)

Arithmetic == <<"ADD", "ADC", "SUB", "SBC", "AND", "XOR", "OR", "CP">>
OnA == <<"RLCA", "RRCA", "RLA", "RRA", "DAA", "CPL", "SCF", "CCF">>

\* 00 to 3F.
Low(n) ==
  LET first == Row(n) % 2 = 0
      half == Row(n) \div 2
  IN  CASE n = 0 -> Instr("NOP", "", "")
        [] n = 8 -> Instr("EX_AF_AFP", "", "")
        [] n = 16 -> Instr("DJNZ", "", "")
        [] n = 24 -> Instr("JR", "always", "")
        [] Column(n) = 0 /\ n >= 32 -> Instr("JR", CC(Row(n) - 4), "")
        [] Column(n) = 1 -> IF first THEN Instr("LD_RX_w", Pair(n), "")
                                   ELSE Instr("ADD_RX_RX", "HL", Pair(n))
        [] Column(n) = 2 /\ half \in {0, 1} ->
             LET ptr == <<"(BC)", "(DE)">>[half + 1]
             IN  IF first THEN Instr("LD_ATRX_R", ptr, "A") ELSE Instr("LD_R_ATRX", "A", ptr)
        [] Column(n) = 2 /\ half = 2 ->
             IF first THEN Instr("LD_ATw_RX", "", "HL") ELSE Instr("LD_RX_ATw", "HL", "")
        [] Column(n) = 2 /\ half = 3 ->
             IF first THEN Instr("LD_ATw_R", "", "A") ELSE Instr("LD_R_ATw", "A", "")
        [] Column(n) = 3 -> Instr(IF first THEN "INC_RX" ELSE "DEC_RX", Pair(n), "")
        [] Column(n) = 4 -> Instr("INC", R8(Row(n)), "")
        [] Column(n) = 5 -> Instr("DEC", R8(Row(n)), "")
        [] Column(n) = 6 -> Instr(IF n = 54 THEN "LD_ATRX_b" ELSE "LD_R_b", R8(Row(n)), "")
        [] Column(n) = 7 -> Instr(OnA[Row(n) + 1], "", "")

\* 40 to 7F.
Moves(n) ==
  CASE n = 118 -> Instr("HALT", "", "")
    [] Column(n) = 6 /\ n # 118 -> Instr("LD_R_ATRX", R8(Row(n)), "(HL)")
    [] Row(n) = 6 /\ n # 118 -> Instr("LD_ATRX_R", "(HL)", R8(Column(n)))
    [] OTHER -> Instr("LD_R_R", R8(Row(n)), R8(Column(n)))

\* 80 to BF.
Operate(n) == Instr(Arithmetic[Row(n) + 1], R8(Column(n)), "")

\* C0 to FF.
High(n) ==
  CASE Column(n) = 0 -> Instr("RET", CC(Row(n)), "")
    [] Column(n) = 1 /\ Row(n) % 2 = 0 -> Instr("POP_RX", IF n = 241 THEN "AF" ELSE Pair(n), "")
    [] n = 201 -> Instr("RET", "always", "")
    [] n = 217 -> Instr("EXX", "", "")
    [] n = 233 -> Instr("JP_ATRX", "", "")
    [] n = 249 -> Instr("LD_RX_RX", "SP", "HL")
    [] Column(n) = 2 -> Instr("JP", CC(Row(n)), "")
    [] n = 195 -> Instr("JP", "always", "")
    [] n = 203 -> Instr("CB", "", "")
    [] n = 211 -> Instr("OUT_ATb_R", "", "A")
    [] n = 219 -> Instr("IN_R_ATb", "A", "")
    [] n = 227 -> Instr("EX_ATRX_RX", "", "")
    [] n = 235 -> Instr("EX_RX_RX", "", "")
    [] n = 243 -> Instr("DI", "", "")
    [] n = 251 -> Instr("EI", "", "")
    [] Column(n) = 4 -> Instr("CALL", CC(Row(n)), "")
    [] Column(n) = 5 /\ Row(n) % 2 = 0 -> Instr("PUSH_RX", IF n = 245 THEN "AF" ELSE Pair(n), "")
    [] n = 205 -> Instr("CALL", "always", "")
    [] n = 221 -> Instr("DD", "", "")
    [] n = 237 -> Instr("ED", "", "")
    [] n = 253 -> Instr("FD", "", "")
    [] Column(n) = 6 -> Instr(Arithmetic[Row(n) + 1], "n", "")
    [] Column(n) = 7 -> Instr("RST", 8 * Row(n), "")

sInstr(n) ==
  CASE n < 64 -> Low(n) [] n >= 64 /\ n < 128 -> Moves(n)
    [] n >= 128 /\ n < 192 -> Operate(n) [] n >= 192 -> High(n)

-------------------------------------------------------------------------------
\* CB 00 to CB 3F.
Rotation(n) ==
  Instr(<<"RLC", "RRC", "RL", "RR", "SLA", "SRA", "SLL", "SRL">>[Row(n) + 1], R8(Column(n)), "")

\* CB 40 to CB FF: the bit's number and the byte it is in.
OnBit(n) == Instr(<<"BIT", "RES", "SET">>[n \div 64], Row(n), R8(Column(n)))

sInstrCB(n) == IF n < 64 THEN Rotation(n) ELSE OnBit(n)

-------------------------------------------------------------------------------
Undefined == Instr("HALT", "", "")

\* ED 40 to ED 7F.  The entries that double others are undefined here, and the pair HL
\* of ED 63 and ED 6B with them.
Extended(n) ==
  LET high == Row(n) % 2 = 1
  IN  CASE Column(n) = 0 /\ Row(n) # 6 -> Instr("IN_R_ATR", R8(Row(n)), "C")
        [] Column(n) = 1 /\ Row(n) # 6 -> Instr("OUT_ATR_R", "C", R8(Row(n)))
        [] Column(n) = 2 -> Instr(IF high THEN "ADC_RX_RX" ELSE "SBC_RX_RX", "HL", Pair(n))
        [] Column(n) = 3 /\ Pair(n) # "HL" ->
             IF high THEN Instr("LD_RX_ATw", Pair(n), "") ELSE Instr("LD_ATw_RX", "", Pair(n))
        [] n = 68 -> Instr("NEG", "", "")
        [] n = 69 -> Instr("RETN", "", "")
        [] n = 77 -> Instr("RETI", "", "")
        [] n \in {70, 86, 94} -> Instr("IM", CASE n = 70 -> 0 [] n = 86 -> 1 [] n = 94 -> 2, "")
        [] n = 71 -> Instr("LD_R_R", "I", "A")
        [] n = 79 -> Instr("LD_R_R", "R", "A")
        [] n = 87 -> Instr("LDS_A_R", "A", "I")
        [] n = 95 -> Instr("LDS_A_R", "A", "R")
        [] n = 103 -> Instr("RRD", "", "")
        [] n = 111 -> Instr("RLD", "", "")
        [] OTHER -> Undefined

\* ED A0 to ED BB; there is no INDR and no OTDR.
Block(n) ==
  CASE n \in 160..163 -> Instr(<<"LDI", "CPI", "INI", "OUTI">>[n - 159], "", "")
    [] n \in 168..171 -> Instr(<<"LDD", "CPD", "IND", "OUTD">>[n - 167], "", "")
    [] n \in 176..179 -> Instr(<<"LDIR", "CPIR", "INIR", "OTIR">>[n - 175], "", "")
    [] n \in 184..185 -> Instr(<<"LDDR", "CPDR">>[n - 183], "", "")
    [] OTHER -> Undefined

sInstrED(n) ==
  CASE n >= 64 /\ n < 128 -> Extended(n)
    [] n >= 128 /\ n < 192 -> Block(n)
    [] n \in (32..63) \cup (240..255) -> Instr("Z80EXT", "", "")
    [] OTHER -> Undefined
==============================================================================
