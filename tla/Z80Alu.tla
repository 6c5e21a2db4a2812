-------------------------------- MODULE Z80Alu --------------------------------
(***************************************************************************)
(* The arithmetic of Z80CPU.cpp: what an instruction makes of its operands *)
(* and the flags S, Z, H, P/V, N and C.  The undocumented copies of bits 3 *)
(* and 5 (X, Y) are left out.  The code computes carries as bits of        *)
(* y ^ z ^ x, operands and unreduced result; so does this module, a bit of *)
(* an exclusive or being the sum of the bits modulo 2.                     *)
(*                                                                         *)
(* An operator returns [r |-> the result, f |-> the flags].                *)
(***************************************************************************)
EXTENDS Integers

Byte == {n \in Nat : n < 256}
Flag == {0, 1}
Flags == [s : Flag, z : Flag, h : Flag, p : Flag, n : Flag, c : Flag]

Yes(b) == IF b THEN 1 ELSE 0
Bit(n, w) == (n \div w) % 2          \* the bit of weight w
parity(n) ==
  (1 + Bit(n, 1) + Bit(n, 2) + Bit(n, 4) + Bit(n, 8)
     + Bit(n, 16) + Bit(n, 32) + Bit(n, 64) + Bit(n, 128)) % 2

\* The bit of weight w of y ^ z ^ x: the carry into that bit.
CarryInto(w, y, z, x) == (Bit(y, w) + Bit(z, w) + Bit(x, w)) % 2

-------------------------------------------------------------------------------
(* Eight bits. *)

\* Mutant of resADD_byte: overflow is taken from the last carry alone.
resADD_byteNoXor(y, z, x) ==
  [s |-> Bit(y, 128), z |-> Yes(y % 256 = 0), h |-> CarryInto(16, y, z, x),
   p |-> CarryInto(256, y, z, x), n |-> 0, c |-> CarryInto(256, y, z, x)]

resADD_byte(y, z, x) ==
  [s |-> Bit(y, 128), z |-> Yes(y % 256 = 0), h |-> CarryInto(16, y, z, x),
   p |-> (CarryInto(128, y, z, x) + CarryInto(256, y, z, x)) % 2,
   n |-> 0, c |-> CarryInto(256, y, z, x)]

resSUB_byte(y, z, x) == [resADD_byte(y, z, x) EXCEPT !.n = 1]

\* y = z + x + carry and y = z - x - carry, the latter an unsigned short.
Sum(z, x, carry) ==
  LET y == z + x + carry IN [r |-> y % 256, f |-> resADD_byte(y, z, x)]
Difference(z, x, carry) ==
  LET y == (z - x - carry) % 65536 IN [r |-> y % 256, f |-> resSUB_byte(y, z, x)]

ADD(z, x) == Sum(z, x, 0)
ADC(z, x, f) == Sum(z, x, f.c)
SUB(z, x) == Difference(z, x, 0)
SBC(z, x, f) == Difference(z, x, f.c)
CP(z, x) == [r |-> z, f |-> SUB(z, x).f]
NEG(z) == Difference(0, z, 0)

\* Mutant of INC: the half carry is that of DEC.
INCHalf(x, f) ==
  LET y == (x + 1) % 256
  IN  [r |-> y, f |-> [s |-> Bit(y, 128), z |-> Yes(y = 0), h |-> Yes(y % 16 = 15),
                       p |-> Yes(y = 128), n |-> 0, c |-> f.c]]

INC(x, f) ==
  LET y == (x + 1) % 256
  IN  [r |-> y, f |-> [s |-> Bit(y, 128), z |-> Yes(y = 0), h |-> Yes(y % 16 = 0),
                       p |-> Yes(y = 128), n |-> 0, c |-> f.c]]
DEC(x, f) ==
  LET y == (x + 255) % 256
  IN  [r |-> y, f |-> [s |-> Bit(y, 128), z |-> Yes(y = 0), h |-> Yes(y % 16 = 15),
                       p |-> Yes(y = 127), n |-> 1, c |-> f.c]]

\* AND, OR and XOR; half is their H.
resLogic(y, half) ==
  [r |-> y, f |-> [s |-> Bit(y, 128), z |-> Yes(y = 0), h |-> half,
                   p |-> parity(y), n |-> 0, c |-> 0]]

\* The operands' bits that are both set: the sum of their weights.
Both(x, y) ==
  LET B(w) == IF Bit(x, w) = 1 /\ Bit(y, w) = 1 THEN w ELSE 0
  IN  B(1) + B(2) + B(4) + B(8) + B(16) + B(32) + B(64) + B(128)

AND(z, x) == resLogic(Both(z, x), 1)
OR(z, x) == resLogic(z + x - Both(z, x), 0)
XOR(z, x) == resLogic(z + x - 2 * Both(z, x), 0)

CPL(z, f) == [r |-> 255 - z, f |-> [f EXCEPT !.h = 1, !.n = 1]]
SCF(f) == [f EXCEPT !.h = 0, !.n = 0, !.c = 1]
CCF(f) == [f EXCEPT !.h = f.c, !.n = 0, !.c = 1 - f.c]

-------------------------------------------------------------------------------
(* Decimal adjustment. *)

\* Mutant of DAADiff: a high digit of 9 pushed over by the low one is forgotten.
DAADiffLowOnly(hi, lo, f) ==
  IF f.c = 1 THEN IF lo > 9 \/ f.h = 1 THEN 102 ELSE 96
  ELSE IF lo >= 10 THEN IF hi > 9 THEN 102 ELSE 6
  ELSE (IF hi >= 10 THEN 96 ELSE 0) + (IF f.h = 1 THEN 6 ELSE 0)

\* diff: 0x66, 0x60, 0x06 or 0x00.
DAADiff(hi, lo, f) ==
  IF f.c = 1 THEN IF lo > 9 \/ f.h = 1 THEN 102 ELSE 96
  ELSE IF lo >= 10 THEN IF hi > 8 THEN 102 ELSE 6
  ELSE (IF hi >= 10 THEN 96 ELSE 0) + (IF f.h = 1 THEN 6 ELSE 0)

DAA(a, f) ==
  LET hi == a \div 16
      lo == a % 16
      diff == DAADiff(hi, lo, f)
      y == (IF f.n = 1 THEN a - diff ELSE a + diff) % 256
  IN  [r |-> y,
       f |-> [s |-> Bit(y, 128), z |-> Yes(y = 0),
              h |-> Yes(IF f.n = 1 THEN f.h = 1 /\ lo <= 5 ELSE lo >= 10),
              p |-> parity(y), n |-> f.n,
              c |-> Yes(f.c = 1 \/ hi >= (IF lo <= 9 THEN 10 ELSE 9))]]

-------------------------------------------------------------------------------
(* Rotation and shift. *)

\* Mutant of resROT_byte: the result is not cut to a byte.
resROT_byteUncut(y, out) ==
  [r |-> y, f |-> [s |-> Bit(y, 128), z |-> Yes(y % 256 = 0), h |-> 0,
                   p |-> parity(y), n |-> 0, c |-> out]]

resROT_byte(y, out) ==
  [r |-> y % 256, f |-> [s |-> Bit(y, 128), z |-> Yes(y % 256 = 0), h |-> 0,
                         p |-> parity(y), n |-> 0, c |-> out]]

RLC(x) == resROT_byte(2 * x + Bit(x, 128), Bit(x, 128))
RL(x, f) == resROT_byte(2 * x + f.c, Bit(x, 128))
SLA(x) == resROT_byte(2 * x, Bit(x, 128))
SLL(x) == resROT_byte(2 * x + 1, Bit(x, 128))
RRC(x) == resROT_byte((x \div 2) + 128 * Bit(x, 1), Bit(x, 1))

\* Mutant of RR: the bit that comes in is the one that goes out.
RRIsRRC(x, f) == RRC(x)
RR(x, f) == resROT_byte((x \div 2) + 128 * f.c, Bit(x, 1))
SRA(x) == resROT_byte((x \div 2) + 128 * Bit(x, 128), Bit(x, 1))
SRL(x) == resROT_byte(x \div 2, Bit(x, 1))

\* The digits of A's low half and of (HL); m is the byte at (HL) afterwards.
resROTD_byte(y, m, f) ==
  [r |-> y, m |-> m, f |-> [s |-> Bit(y, 128), z |-> Yes(y = 0), h |-> 0,
                            p |-> parity(y), n |-> 0, c |-> f.c]]
RLD(a, m, f) ==
  resROTD_byte(16 * (a \div 16) + (m \div 16), 16 * (m % 16) + (a % 16), f)

\* Mutant of RRD: the high digit of the memory is moved to A.
RRDOther(a, m, f) ==
  resROTD_byte(16 * (a \div 16) + (m \div 16), 16 * (a % 16) + (m % 16), f)
RRD(a, m, f) ==
  resROTD_byte(16 * (a \div 16) + (m % 16), 16 * (a % 16) + (m \div 16), f)

-------------------------------------------------------------------------------
(* Sixteen bits.  The code computes in 32; seventeen tell the same. *)

ADD16(x, y, f) ==
  LET z == x + y
  IN  [r |-> z % 65536, f |-> [f EXCEPT !.h = CarryInto(4096, z, x, y), !.n = 0,
                                        !.c = CarryInto(65536, z, x, y)]]

\* z is the uint before it is cut to a register: Z tells whether that is 0.
res16(z, x, y, neg) ==
  [r |-> z % 65536,
   f |-> [s |-> Bit(z, 32768), z |-> Yes(z = 0), h |-> CarryInto(4096, z, x, y),
          p |-> (CarryInto(32768, z, x, y) + CarryInto(65536, z, x, y)) % 2,
          n |-> neg, c |-> CarryInto(65536, z, x, y)]]

\* Mutant of ADC16: the carry is not added.
ADC16NoCarry(x, y, f) == res16(x + y, x, y, 0)

ADC16(x, y, f) == res16(x + y + f.c, x, y, 0)
SBC16(x, y, f) == res16((x - y - f.c) % 131072, x, y, 1)
===============================================================================
