------------------------------- MODULE Z80Core -------------------------------
(***************************************************************************)
(* Z80CPU::sim(): a whole instruction at a time, prefixes included, on the *)
(* registers and the memory.  A processor z has                            *)
(*   r     the 8-bit registers, those of IX and IY by halves               *)
(*   f     the flags, as in Z80Alu                                         *)
(*   alt   AF', BC', DE' and HL'                                           *)
(*   sp, pc, mem, iff1, iff2, im, irq                                      *)
(*   mode  what setMode() was told: "STOP", "RET" or "RUN"                 *)
(* Left out: the time an instruction takes, and the register R, which      *)
(* counts what is fetched: reading it gives any byte.                      *)
(***************************************************************************)
EXTENDS Z80Decode, Z80Alu, CpuRam

CONSTANT MaxPrefixes    \* bound: how many prefixes precede an opcode

ASSUME PrefixAssumption == MaxPrefixes \in Nat

RegName == {"A", "B", "C", "D", "E", "H", "L", "IXH", "IXL", "IYH", "IYL", "I"}
Word == {n \in Nat : n < 65536}

Alternates == [af : Word, bc : Word, de : Word, hl : Word]
IsProcessor(z) ==
  /\ DOMAIN z = {"r", "f", "alt", "sp", "pc", "mem", "iff1", "iff2", "im", "irq", "mode"}
  /\ z.r \in [RegName -> Byte] /\ z.f \in Flags /\ z.alt \in Alternates
  /\ z.sp \in Word /\ z.pc \in Word
  /\ DOMAIN z.mem \subseteq Word /\ \A a \in DOMAIN z.mem : z.mem[a] \in Byte
  /\ z.iff1 \in Flag /\ z.iff2 \in Flag /\ z.im \in {0, 1, 2} /\ z.irq \in Flag
  /\ z.mode \in {"STOP", "RET", "RUN"}

\* Z80x and Z80h: the halves of a pair.
Hi == [BC |-> "B", DE |-> "D", HL |-> "H", IX |-> "IXH", IY |-> "IYH"]
Lo == [BC |-> "C", DE |-> "E", HL |-> "L", IX |-> "IXL", IY |-> "IYL"]

\* AF in memory; bits 3 and 5 are left out with the flags X and Y.
FByte(f) == 128 * f.s + 64 * f.z + 16 * f.h + 4 * f.p + 2 * f.n + f.c
FlagsOf(b) == [s |-> Bit(b, 128), z |-> Bit(b, 64), h |-> Bit(b, 16),
               p |-> Bit(b, 4), n |-> Bit(b, 2), c |-> Bit(b, 1)]

Pair16(z, p) ==
  CASE p = "SP" -> z.sp
    [] p = "AF" -> 256 * z.r["A"] + FByte(z.f)
    [] OTHER -> 256 * z.r[Hi[p]] + z.r[Lo[p]]

\* Mutant of Set16: a pair is as wide as an int.
Set16Uncut(z, p, v) ==
  CASE p = "SP" -> [z EXCEPT !.sp = v]
    [] p = "AF" -> [z EXCEPT !.r["A"] = v \div 256, !.f = FlagsOf(v % 256)]
    [] OTHER -> [z EXCEPT !.r[Hi[p]] = v \div 256, !.r[Lo[p]] = v % 256]

Set16(z, p, v) ==
  CASE p = "SP" -> [z EXCEPT !.sp = v % 65536]
    [] p = "AF" -> [z EXCEPT !.r["A"] = v \div 256, !.f = FlagsOf(v % 256)]
    [] OTHER -> [z EXCEPT !.r[Hi[p]] = (v % 65536) \div 256, !.r[Lo[p]] = v % 256]

Set8(z, n, v) == [z EXCEPT !.r[n] = v]

\* fetch(), laddr() and saddr() at pc, which Skip moves on.
Skip(z, k) == [z EXCEPT !.pc = (@ + k) % 65536]
Imm8(z) == read(z.mem, z.pc)
Imm16(z) == readWord(z.mem, z.pc)
Signed(b) == IF b > 127 THEN b - 256 ELSE b

Put(z, a, v) == [z EXCEPT !.mem = write(@, a, v % 256)]

Push(z, v) ==
  LET s == (z.sp + 65534) % 65536 IN [z EXCEPT !.sp = s, !.mem = writeWord(@, s, v)]
Top(z) == readWord(z.mem, z.sp)
Pop(z) == [z EXCEPT !.sp = (@ + 2) % 65536]

-------------------------------------------------------------------------------
(* The prefixes: d is what an instruction was decoded to. *)

\* The opcode at pc has k bytes DD and FD before it; simDD and simFD call simop() again
\* for each, as deep as they are many.
Prefixed(mem, pc, k) ==
  /\ \A j \in 0..(k - 1) : read(mem, pc + j) \in {221, 253}
  /\ read(mem, pc + k) \notin {221, 253}

FewPrefixes(mem, pc) == \E k \in 0..MaxPrefixes : Prefixed(mem, pc, k)
Prefixes(mem, pc) == CHOOSE k \in 0..MaxPrefixes : Prefixed(mem, pc, k)

\* named: the register pair the flags useix and useiy choose; pointed: the one the
\* pointers were left on.  They differ when DD comes before FD: selectIY() does not
\* clear useix.  disp: the offset simCB has fetched before the opcode.
Decode(mem, pc) ==
  LET n == Prefixes(mem, pc)
      at == pc + n
      named == IF n = 0 THEN "HL"
               ELSE IF \E j \in 0..(n - 1) : read(mem, pc + j) = 221 THEN "IX" ELSE "IY"
      pointed == IF n = 0 THEN "HL" ELSE IF read(mem, at - 1) = 221 THEN "IX" ELSE "IY"
      D(ins, disp, next) == [ins |-> ins, disp |-> disp, next |-> next % 65536,
                             named |-> named, pointed |-> pointed]
      main == sInstr(read(mem, at))
  IN  CASE main.op = "CB" /\ named = "HL" -> D(sInstrCB(read(mem, at + 1)), 0, at + 2)
        [] main.op = "CB" /\ named # "HL" ->
             D(sInstrCB(read(mem, at + 2)), Signed(read(mem, at + 1)), at + 3)
        [] main.op = "ED" -> D(sInstrED(read(mem, at + 1)), 0, at + 2)
        [] OTHER -> D(main, 0, at + 1)

\* H and L stand for the halves of the pair in force.
In(pair, n) == IF n = "H" THEN Hi[pair] ELSE IF n = "L" THEN Lo[pair] ELSE n
\* Mutant of Of: the index pair is forgotten.
OfNone(pair, p) == p

\* HL stands for it.
Of(pair, p) == IF p = "HL" THEN pair ELSE p

OnBytes == {"BIT", "RES", "SET", "RLC", "RRC", "RL", "RR", "SLA", "SRA", "SLL", "SRL"}

\* "(HL)": (IX+d) has its offset after the opcode, or before it if that follows CB.
Fetches(d) == d.named # "HL" /\ d.ins.op \notin OnBytes
Address(z, d) ==
  IF Fetches(d) THEN Pair16(z, d.named) + Signed(Imm8(z)) ELSE Pair16(z, d.named) + d.disp
After(z, d) == IF Fetches(d) THEN Skip(z, 1) ELSE z

-------------------------------------------------------------------------------
(* Loads. *)

Pointer(x) == CASE x = "(HL)" -> "HL" [] x = "(BC)" -> "BC" [] x = "(DE)" -> "DE"

\* LD r,(rr) and LD (rr),r: any pointer takes an offset once there was a prefix.
\* Then selectHL(): the register is H or L itself.
Pointed(z, d, p) ==
  Pair16(z, Of(d.pointed, Pointer(p))) + (IF d.pointed = "HL" THEN 0 ELSE Signed(Imm8(z)))
AfterPointed(z, d) == IF d.pointed = "HL" THEN z ELSE Skip(z, 1)

LD_R_ATRX(z, d) ==
  Set8(AfterPointed(z, d), d.ins.x, read(z.mem, Pointed(z, d, d.ins.y)))
LD_ATRX_R(z, d) ==
  Put(AfterPointed(z, d), Pointed(z, d, d.ins.x), z.r[d.ins.y])

LD_ATRX_b(z, d) ==
  LET w == After(z, d) IN Put(Skip(w, 1), Address(z, d), Imm8(w))

LDS_A_R(z, d, any) ==
  LET v == IF d.ins.y = "R" THEN any ELSE z.r["I"]
  IN  [Set8(z, "A", v) EXCEPT !.f = [s |-> Bit(v, 128), z |-> Yes(v = 0), h |-> 0,
                                     p |-> z.iff2, n |-> 0, c |-> z.f.c]]

LoadByte(z, d, any) ==
  LET x == d.ins.x
      y == d.ins.y
  IN  CASE d.ins.op = "LD_R_R" ->
             IF x = "R" THEN z ELSE Set8(z, In(d.named, x), z.r[In(d.named, y)])
        [] d.ins.op = "LDS_A_R" -> LDS_A_R(z, d, any)
        [] d.ins.op = "LD_R_b" -> Set8(Skip(z, 1), In(d.named, x), Imm8(z))
        [] d.ins.op = "LD_R_ATRX" -> LD_R_ATRX(z, d)
        [] d.ins.op = "LD_ATRX_R" -> LD_ATRX_R(z, d)
        [] d.ins.op = "LD_ATRX_b" -> LD_ATRX_b(z, d)
        [] d.ins.op = "LD_R_ATw" -> Set8(Skip(z, 2), x, read(z.mem, Imm16(z)))
        [] d.ins.op = "LD_ATw_R" -> Put(Skip(z, 2), Imm16(z), z.r[y])

LoadWord(z, d) ==
  LET to == Of(d.named, d.ins.x)
      from == Of(d.named, d.ins.y)
  IN  CASE d.ins.op = "LD_RX_w" -> Set16(Skip(z, 2), to, Imm16(z))
        [] d.ins.op = "LD_RX_ATw" -> Set16(Skip(z, 2), to, readWord(z.mem, Imm16(z)))
        [] d.ins.op = "LD_ATw_RX" ->
             [Skip(z, 2) EXCEPT !.mem = writeWord(@, Imm16(z), Pair16(z, from))]
        [] d.ins.op = "LD_RX_RX" -> Set16(z, to, Pair16(z, from))
        [] d.ins.op = "PUSH_RX" -> Push(z, Pair16(z, to))
        [] d.ins.op = "POP_RX" -> Set16(Pop(z), to, Top(z))

-------------------------------------------------------------------------------
(* Exchanges, and the instructions that repeat. *)

Swapped(z, p, q) == Set16(Set16(z, p, Pair16(z, q)), q, Pair16(z, p))

Exchange(z, d) ==
  CASE d.ins.op = "EX_RX_RX" -> Swapped(z, "DE", d.named)
    [] d.ins.op = "EX_AF_AFP" ->
         Set16([z EXCEPT !.alt.af = Pair16(z, "AF")], "AF", z.alt.af)
    [] d.ins.op = "EXX" ->
         [Set16(Set16(Set16(z, "BC", z.alt.bc), "DE", z.alt.de), "HL", z.alt.hl)
          EXCEPT !.alt.bc = Pair16(z, "BC"), !.alt.de = Pair16(z, "DE"),
                 !.alt.hl = Pair16(z, "HL")]
    [] d.ins.op = "EX_ATRX_RX" ->
         [Set16(z, d.named, Top(z)) EXCEPT !.mem = writeWord(@, z.sp, Pair16(z, d.named))]

Up == {"LDI", "LDIR", "CPI", "CPIR", "INI", "INIR", "OUTI", "OTIR"}
Repeating == {"LDIR", "LDDR", "CPIR", "CPDR", "INIR", "OTIR"}
Moving == {"LDI", "LDD", "LDIR", "LDDR"}
Comparing == {"CPI", "CPD", "CPIR", "CPDR"}
Receiving == {"INI", "IND", "INIR"}
Sending == {"OUTI", "OUTD", "OTIR"}

\* An odd port is the console's, whose reading withdraws the interrupt request.
Read(z, port) == IF port % 2 = 1 THEN [z EXCEPT !.irq = 0] ELSE z

\* What a round does once HL has moved on in w: de and bc are the pointer and the count
\* of a move or a comparison, b is B counted down.
Moved(w, de, step, bc, m) ==
  Put([Set16(Set16(w, "BC", bc), "DE", de + step)
       EXCEPT !.f.h = 0, !.f.p = Yes(bc # 0), !.f.n = 0], de, m)
Compared(w, bc, m) ==
  [Set16(w, "BC", bc) EXCEPT !.f = [CP(w.r["A"], m).f EXCEPT !.p = Yes(bc # 0), !.c = w.f.c]]
Received(w, hl, b, any) ==
  [Put(Set8(Read(w, w.r["C"]), "B", b.r), hl, any) EXCEPT !.f = b.f]
Sent(w, b) == [Set8(w, "B", b.r) EXCEPT !.f = b.f]

\* One round; a further one begins with the same two bytes.
RoundOf(z, d, any) ==
  LET op == d.ins.op
      step == IF op \in Up THEN 1 ELSE 65535
      hl == Pair16(z, "HL")
      bc == (Pair16(z, "BC") + 65535) % 65536
      b == DEC(z.r["B"], z.f)
      m == read(z.mem, hl)
      w == Set16(z, "HL", hl + step)
      again == IF op \in Moving THEN bc # 0
               ELSE IF op \in Comparing THEN bc # 0 /\ m # z.r["A"]
               ELSE b.r # 0
      v == CASE op \in Moving -> Moved(w, Pair16(z, "DE"), step, bc, m)
             [] op \in Comparing -> Compared(w, bc, m)
             [] op \in Receiving -> Received(w, hl, b, any)
             [] op \in Sending -> Sent(w, b)
  IN  IF op \in Repeating /\ again THEN Skip(v, 65534) ELSE v

-------------------------------------------------------------------------------
(* Arithmetic, by Z80Alu. *)

Computed(op, a, v, f) ==
  CASE op = "ADD" -> ADD(a, v) [] op = "ADC" -> ADC(a, v, f)
    [] op = "SUB" -> SUB(a, v) [] op = "SBC" -> SBC(a, v, f)
    [] op = "AND" -> AND(a, v) [] op = "OR" -> OR(a, v)
    [] op = "XOR" -> XOR(a, v) [] op = "CP" -> CP(a, v)

\* The operand of an operation on A; with a register the code goes by the pointers.
Operand8(z, d) ==
  CASE d.ins.x = "n" -> Imm8(z)
    [] d.ins.x = "(HL)" -> read(z.mem, Address(z, d))
    [] OTHER -> z.r[In(d.pointed, d.ins.x)]

OnAccumulator(z, d) ==
  LET res == Computed(d.ins.op, z.r["A"], Operand8(z, d), z.f)
      w == IF d.ins.x = "n" THEN Skip(z, 1) ELSE IF d.ins.x = "(HL)" THEN After(z, d) ELSE z
  IN  [Set8(w, "A", res.r) EXCEPT !.f = res.f]

\* resROTA: S, Z and P stay as they were.
Rotated(f, res) == [r |-> res.r, f |-> [f EXCEPT !.h = 0, !.n = 0, !.c = res.f.c]]

\* The instructions on A and the flags that have no operand.
General(z, d) ==
  LET a == z.r["A"]
      m == read(z.mem, Pair16(z, "HL"))
      res == CASE d.ins.op = "DAA" -> DAA(a, z.f)
               [] d.ins.op = "CPL" -> CPL(a, z.f)
               [] d.ins.op = "NEG" -> NEG(a)
               [] d.ins.op = "SCF" -> [r |-> a, f |-> SCF(z.f)]
               [] d.ins.op = "CCF" -> [r |-> a, f |-> CCF(z.f)]
               [] d.ins.op = "RLCA" -> Rotated(z.f, RLC(a))
               [] d.ins.op = "RRCA" -> Rotated(z.f, RRC(a))
               [] d.ins.op = "RLA" -> Rotated(z.f, RL(a, z.f))
               [] d.ins.op = "RRA" -> Rotated(z.f, RR(a, z.f))
               [] d.ins.op = "RLD" -> RLD(a, m, z.f)
               [] d.ins.op = "RRD" -> RRD(a, m, z.f)
      w == [Set8(z, "A", res.r) EXCEPT !.f = res.f]
  IN  IF d.ins.op \in {"RLD", "RRD"} THEN Put(w, Pair16(z, "HL"), res.m) ELSE w

Changed(op, v, f) ==
  CASE op = "INC" -> INC(v, f) [] op = "DEC" -> DEC(v, f)
    [] op = "RLC" -> RLC(v) [] op = "RRC" -> RRC(v)
    [] op = "RL" -> RL(v, f) [] op = "RR" -> RR(v, f)
    [] op = "SLA" -> SLA(v) [] op = "SRA" -> SRA(v)
    [] op = "SLL" -> SLL(v) [] op = "SRL" -> SRL(v)

\* INC, DEC and the rotations of a register or of memory.  INC and DEC name the half
\* they mean, the rotations go by the pointers.
OnOperand(z, d) ==
  LET reg == In(IF d.ins.op \in {"INC", "DEC"} THEN d.named ELSE d.pointed, d.ins.x)
      atHL == d.ins.x = "(HL)"
      res == Changed(d.ins.op, IF atHL THEN read(z.mem, Address(z, d)) ELSE z.r[reg], z.f)
      w == IF atHL THEN Put(After(z, d), Address(z, d), res.r) ELSE Set8(z, reg, res.r)
  IN  [w EXCEPT !.f = res.f]

Arithmetic16(z, d) ==
  LET to == Of(d.named, d.ins.x)
      x == Pair16(z, to)
      y == IF d.ins.y = "" THEN 1 ELSE Pair16(z, Of(d.named, d.ins.y))
      res == CASE d.ins.op = "ADD_RX_RX" -> ADD16(x, y, z.f)
               [] d.ins.op = "ADC_RX_RX" -> ADC16(x, y, z.f)
               [] d.ins.op = "SBC_RX_RX" -> SBC16(x, y, z.f)
               [] d.ins.op = "INC_RX" -> [r |-> x + 1, f |-> z.f]
               [] d.ins.op = "DEC_RX" -> [r |-> x + 65535, f |-> z.f]
  IN  [Set16(z, to, res.r) EXCEPT !.f = res.f]

\* BIT, SET and RES.
Weight(n) == <<1, 2, 4, 8, 16, 32, 64, 128>>[n + 1]
OnOneBit(z, d) ==
  LET w == Weight(d.ins.x)
      atHL == d.ins.y = "(HL)"
      v == IF atHL THEN read(z.mem, Address(z, d)) ELSE z.r[In(d.pointed, d.ins.y)]
      new == CASE d.ins.op = "SET" -> v + w * (1 - Bit(v, w))
               [] d.ins.op = "RES" -> v - w * Bit(v, w)
               [] d.ins.op = "BIT" -> v
      set == Yes(Bit(v, w) = 1)
  IN  IF d.ins.op = "BIT"
      THEN [z EXCEPT !.f = [s |-> IF w = 128 THEN set ELSE 0, z |-> 1 - set, h |-> 1,
                            p |-> 1 - set, n |-> 0, c |-> z.f.c]]
      ELSE IF atHL THEN Put(z, Address(z, d), new)
      ELSE Set8(z, In(d.pointed, d.ins.y), new)

-------------------------------------------------------------------------------
(* Jumps, calls and returns. *)

Holds(f, cc) ==
  CASE cc = "always" -> TRUE
    [] cc = "NZ" -> f.z = 0 [] cc = "Z" -> f.z = 1
    [] cc = "NC" -> f.c = 0 [] cc = "C" -> f.c = 1
    [] cc = "PO" -> f.p = 0 [] cc = "PE" -> f.p = 1
    [] cc = "P" -> f.s = 0 [] cc = "M" -> f.s = 1

To(z, a) == [z EXCEPT !.pc = a % 65536]

Jump(z, d) ==
  LET short == Skip(z, 1)
      relative == To(z, z.pc + 1 + Signed(Imm8(z)))
      b == (z.r["B"] + 255) % 256
  IN  CASE d.ins.op = "JP" -> IF Holds(z.f, d.ins.x) THEN To(z, Imm16(z)) ELSE Skip(z, 2)
        [] d.ins.op = "JR" -> IF Holds(z.f, d.ins.x) THEN relative ELSE short
        [] d.ins.op = "DJNZ" -> Set8(IF b # 0 THEN relative ELSE short, "B", b)
        [] d.ins.op = "JP_ATRX" -> To(z, Pair16(z, d.named))

CallOrReturn(z, d) ==
  CASE d.ins.op = "CALL" ->
         LET w == Skip(z, 2) IN IF Holds(z.f, d.ins.x) THEN To(Push(w, w.pc), Imm16(z)) ELSE w
    [] d.ins.op = "RST" -> To(Push(z, z.pc), d.ins.x)
    [] d.ins.op = "RET" -> IF Holds(z.f, d.ins.x) THEN To(Pop(z), Top(z)) ELSE z
    [] d.ins.op = "RETI" -> To(Pop(z), Top(z))
    [] d.ins.op = "RETN" -> [To(Pop(z), Top(z)) EXCEPT !.iff1 = z.iff2]

-------------------------------------------------------------------------------
(* Control, input and output. *)

InOut(z, d, any) ==
  CASE d.ins.op = "IN_R_ATb" -> Set8(Read(Skip(z, 1), Imm8(z)), "A", any)
    [] d.ins.op = "IN_R_ATR" ->
         [Set8(Read(z, z.r["C"]), In(d.pointed, d.ins.x), any)
          EXCEPT !.f = OR(any, any).f]
    [] d.ins.op = "OUT_ATb_R" -> Skip(z, 1)
    [] d.ins.op = "OUT_ATR_R" -> z

Control(z, d) ==
  CASE d.ins.op \in {"NOP", "Z80EXT"} -> z
    [] d.ins.op = "HALT" -> [z EXCEPT !.mode = "STOP"]
    [] d.ins.op = "DI" -> [z EXCEPT !.iff1 = 0, !.iff2 = 0]
    [] d.ins.op = "EI" -> [z EXCEPT !.iff1 = 1, !.iff2 = 0]
    [] d.ins.op = "IM" -> [z EXCEPT !.im = d.ins.x]

-------------------------------------------------------------------------------
ByteLoads == {"LD_R_R", "LDS_A_R", "LD_R_b", "LD_R_ATRX", "LD_ATRX_R", "LD_ATRX_b",
              "LD_R_ATw", "LD_ATw_R"}
WordLoads == {"LD_RX_w", "LD_RX_ATw", "LD_ATw_RX", "LD_RX_RX", "PUSH_RX", "POP_RX"}
Exchanges == {"EX_RX_RX", "EX_AF_AFP", "EXX", "EX_ATRX_RX"}
Blocks == Moving \cup Comparing \cup Receiving \cup Sending
Operations == {"ADD", "ADC", "SUB", "SBC", "AND", "OR", "XOR", "CP"}
Generals == {"DAA", "CPL", "NEG", "SCF", "CCF", "RLCA", "RRCA", "RLA", "RRA", "RLD", "RRD"}
Bits == {"BIT", "SET", "RES"}
Changes == {"INC", "DEC"} \cup (OnBytes \ Bits)
Wides == {"ADD_RX_RX", "ADC_RX_RX", "SBC_RX_RX", "INC_RX", "DEC_RX"}
Jumps == {"JP", "JR", "DJNZ", "JP_ATRX"}
Returns == {"RET", "RETI", "RETN"}
Calls == {"CALL", "RST"}
Ports == {"IN_R_ATb", "IN_R_ATR", "OUT_ATb_R", "OUT_ATR_R"}

\* any: the byte a port, or R, is read as.
simop(z, d, any) ==
  CASE d.ins.op \in ByteLoads -> LoadByte(z, d, any)
    [] d.ins.op \in WordLoads -> LoadWord(z, d)
    [] d.ins.op \in Exchanges -> Exchange(z, d)
    [] d.ins.op \in Blocks -> RoundOf(z, d, any)
    [] d.ins.op \in Operations -> OnAccumulator(z, d)
    [] d.ins.op \in Generals -> General(z, d)
    [] d.ins.op \in Changes -> OnOperand(z, d)
    [] d.ins.op \in Bits -> OnOneBit(z, d)
    [] d.ins.op \in Wides -> Arithmetic16(z, d)
    [] d.ins.op \in Jumps -> Jump(z, d)
    [] d.ins.op \in Calls \cup Returns -> CallOrReturn(z, d)
    [] d.ins.op \in Ports -> InOut(z, d, any)
    [] OTHER -> Control(z, d)

\* A request that is accepted takes the place of the instruction; otherwise EI's
\* delay ends before the next one.
Accepts(z) == z.iff1 = 1 /\ z.iff2 = 1 /\ z.irq = 1

sim(z, any) ==
  IF Accepts(z)
  THEN LET w == [z EXCEPT !.iff1 = 0, !.iff2 = 0] IN IF z.im = 1 THEN To(Push(w, w.pc), 56) ELSE w
  ELSE LET d == Decode(z.mem, z.pc)
           w == IF z.iff1 = 1 THEN [z EXCEPT !.iff2 = 1] ELSE z
       IN  simop(To(w, d.next), d, any)
==============================================================================
