---------------------------- MODULE DebuggerProofs ----------------------------
(***************************************************************************)
(* Theorems about the processor and the debugger, for every memory and     *)
(* every program: see the README for the argument.                         *)
(***************************************************************************)
EXTENDS Debugger, FiniteSetTheorems, TLAPS

-------------------------------------------------------------------------------
(* Bytes, words and flags. *)

LEMMA BitIsFlag ==
  ASSUME NEW n \in Int, NEW w \in Nat \ {0} PROVE Bit(n, w) \in Flag
<1>1. n \div w \in Int
  OBVIOUS
<1>2. \A m \in Int : m % 2 \in {0, 1}
  OBVIOUS
<1>3. QED BY <1>1, <1>2 DEF Bit, Flag

LEMMA YesIsFlag == ASSUME NEW b PROVE Yes(b) \in Flag
BY DEF Yes, Flag

LEMMA Cuts ==
  ASSUME NEW n \in Int
  PROVE  n % 256 \in Byte /\ n % 65536 \in Word /\ (n % 65536) \div 256 \in Byte
BY DEF Byte, Word

LEMMA WordHalves ==
  ASSUME NEW w \in Word PROVE w \div 256 \in Byte /\ w % 256 \in Byte
BY DEF Byte, Word

LEMMA HalvesOfAWord ==
  ASSUME NEW h \in Byte, NEW l \in Byte PROVE 256 * h + l \in Word
BY DEF Byte, Word

LEMMA BytesAreNumbers == Byte \subseteq Int /\ Word \subseteq Int /\ Flag \subseteq Byte
BY DEF Byte, Word, Flag

LEMMA ParityIsFlag == ASSUME NEW n \in Int PROVE parity(n) \in Flag
<1>1. \A w \in {1, 2, 4, 8, 16, 32, 64, 128} : Bit(n, w) \in {0, 1}
  BY BitIsFlag DEF Flag
<1>2. /\ Bit(n, 1) \in {0, 1} /\ Bit(n, 2) \in {0, 1} /\ Bit(n, 4) \in {0, 1}
      /\ Bit(n, 8) \in {0, 1} /\ Bit(n, 16) \in {0, 1} /\ Bit(n, 32) \in {0, 1}
      /\ Bit(n, 64) \in {0, 1} /\ Bit(n, 128) \in {0, 1}
  BY <1>1
<1>3. QED BY <1>2 DEF parity, Flag

\* The carries that the instructions look at.
LEMMA CarriesAreFlags ==
  ASSUME NEW y \in Int, NEW z \in Int, NEW x \in Int
  PROVE  /\ CarryInto(16, y, z, x) \in Flag
         /\ CarryInto(128, y, z, x) \in Flag
         /\ CarryInto(256, y, z, x) \in Flag
         /\ CarryInto(4096, y, z, x) \in Flag
         /\ CarryInto(32768, y, z, x) \in Flag
         /\ CarryInto(65536, y, z, x) \in Flag
<1>1. CarryInto(16, y, z, x) \in Flag
  BY DEF CarryInto, Bit, Flag
<1>2. CarryInto(128, y, z, x) \in Flag
  BY DEF CarryInto, Bit, Flag
<1>3. CarryInto(256, y, z, x) \in Flag
  BY DEF CarryInto, Bit, Flag
<1>4. CarryInto(4096, y, z, x) \in Flag
  BY DEF CarryInto, Bit, Flag
<1>5. CarryInto(32768, y, z, x) \in Flag
  BY DEF CarryInto, Bit, Flag
<1>6. CarryInto(65536, y, z, x) \in Flag
  BY DEF CarryInto, Bit, Flag
<1>7. QED BY <1>1, <1>2, <1>3, <1>4, <1>5, <1>6

\* A byte is the sum of its bits' weights.
LEMMA ByteIsItsBits ==
  ASSUME NEW n \in Byte
  PROVE  n = Bit(n, 1) + 2 * Bit(n, 2) + 4 * Bit(n, 4) + 8 * Bit(n, 8) + 16 * Bit(n, 16)
             + 32 * Bit(n, 32) + 64 * Bit(n, 64) + 128 * Bit(n, 128)
<1>1. n \in Int /\ 0 <= n /\ n < 256
  BY DEF Byte
<1>2. n = 16 * (n \div 16) + (n % 16) /\ n \div 16 \in 0..15 /\ n % 16 \in 0..15
  BY <1>1
<1>3. n % 16 = Bit(n, 1) + 2 * Bit(n, 2) + 4 * Bit(n, 4) + 8 * Bit(n, 8)
  BY <1>1 DEF Bit
<1>4. n \div 16 = Bit(n, 16) + 2 * Bit(n, 32) + 4 * Bit(n, 64) + 8 * Bit(n, 128)
  BY <1>1 DEF Bit
<1>5. /\ Bit(n, 1) \in Int /\ Bit(n, 2) \in Int /\ Bit(n, 4) \in Int /\ Bit(n, 8) \in Int
      /\ Bit(n, 16) \in Int /\ Bit(n, 32) \in Int /\ Bit(n, 64) \in Int /\ Bit(n, 128) \in Int
  BY <1>1 DEF Bit
<1>6. QED BY <1>2, <1>3, <1>4, <1>5


\* What both have at one bit is at most what either has, and with what one of them
\* has makes up at most the bit's weight.
LEMMA BothIsBetween ==
  ASSUME NEW n \in Byte, NEW m \in Byte
  PROVE  /\ Both(n, m) \in Int /\ 0 <= Both(n, m) /\ Both(n, m) <= n /\ Both(n, m) <= m
         /\ n + m - Both(n, m) <= 255
<1> DEFINE B(w) == IF Bit(n, w) = 1 /\ Bit(m, w) = 1 THEN w ELSE 0
<1>1. ASSUME NEW w \in {1, 2, 4, 8, 16, 32, 64, 128}
      PROVE  /\ B(w) \in Int /\ 0 <= B(w) /\ B(w) <= w * Bit(n, w) /\ B(w) <= w * Bit(m, w)
             /\ w * Bit(n, w) + w * Bit(m, w) - B(w) <= w
             /\ Bit(n, w) \in Int /\ Bit(m, w) \in Int
  <2>1. Bit(n, w) \in {0, 1} /\ Bit(m, w) \in {0, 1}
    BY BitIsFlag, BytesAreNumbers DEF Flag
  <2>2. QED BY <2>1
<1> HIDE DEF B
<1>2. Both(n, m) = B(1) + B(2) + B(4) + B(8) + B(16) + B(32) + B(64) + B(128)
  BY DEF Both, B
<1>3. /\ B(1) \in Int /\ 0 <= B(1) /\ B(1) <= 1 * Bit(n, 1) /\ B(1) <= 1 * Bit(m, 1)
      /\ 1 * Bit(n, 1) + 1 * Bit(m, 1) - B(1) <= 1
      /\ Bit(n, 1) \in Int /\ Bit(m, 1) \in Int
      /\ B(2) \in Int /\ 0 <= B(2) /\ B(2) <= 2 * Bit(n, 2) /\ B(2) <= 2 * Bit(m, 2)
      /\ 2 * Bit(n, 2) + 2 * Bit(m, 2) - B(2) <= 2
      /\ Bit(n, 2) \in Int /\ Bit(m, 2) \in Int
      /\ B(4) \in Int /\ 0 <= B(4) /\ B(4) <= 4 * Bit(n, 4) /\ B(4) <= 4 * Bit(m, 4)
      /\ 4 * Bit(n, 4) + 4 * Bit(m, 4) - B(4) <= 4
      /\ Bit(n, 4) \in Int /\ Bit(m, 4) \in Int
      /\ B(8) \in Int /\ 0 <= B(8) /\ B(8) <= 8 * Bit(n, 8) /\ B(8) <= 8 * Bit(m, 8)
      /\ 8 * Bit(n, 8) + 8 * Bit(m, 8) - B(8) <= 8
      /\ Bit(n, 8) \in Int /\ Bit(m, 8) \in Int
      /\ B(16) \in Int /\ 0 <= B(16) /\ B(16) <= 16 * Bit(n, 16) /\ B(16) <= 16 * Bit(m, 16)
      /\ 16 * Bit(n, 16) + 16 * Bit(m, 16) - B(16) <= 16
      /\ Bit(n, 16) \in Int /\ Bit(m, 16) \in Int
      /\ B(32) \in Int /\ 0 <= B(32) /\ B(32) <= 32 * Bit(n, 32) /\ B(32) <= 32 * Bit(m, 32)
      /\ 32 * Bit(n, 32) + 32 * Bit(m, 32) - B(32) <= 32
      /\ Bit(n, 32) \in Int /\ Bit(m, 32) \in Int
      /\ B(64) \in Int /\ 0 <= B(64) /\ B(64) <= 64 * Bit(n, 64) /\ B(64) <= 64 * Bit(m, 64)
      /\ 64 * Bit(n, 64) + 64 * Bit(m, 64) - B(64) <= 64
      /\ Bit(n, 64) \in Int /\ Bit(m, 64) \in Int
      /\ B(128) \in Int /\ 0 <= B(128) /\ B(128) <= 128 * Bit(n, 128) /\ B(128) <= 128 * Bit(m, 128)
      /\ 128 * Bit(n, 128) + 128 * Bit(m, 128) - B(128) <= 128
      /\ Bit(n, 128) \in Int /\ Bit(m, 128) \in Int
  BY <1>1
<1>4. n \in Int /\ m \in Int
  BY BytesAreNumbers
<1>5. Both(n, m) \in Int /\ 0 <= Both(n, m)
  BY <1>2, <1>3
<1>6. Both(n, m) <= n /\ Both(n, m) <= m
  BY <1>2, <1>3, ByteIsItsBits
<1>7. n + m - Both(n, m) <= 255
  BY <1>2, <1>3, ByteIsItsBits
<1>8. QED BY <1>5, <1>6, <1>7

-------------------------------------------------------------------------------
(* What the arithmetic returns has the width of a register, and all its flags. *)

Outcome(res) == res.r \in Byte /\ res.f \in Flags

LEMMA SumOutcome ==
  ASSUME NEW n \in Byte, NEW m \in Byte, NEW carry \in Flag
  PROVE  Outcome(Sum(n, m, carry)) /\ Outcome(Difference(n, m, carry))
<1>1. n \in Int /\ m \in Int /\ carry \in Int
  BY BytesAreNumbers DEF Flag
<1>2. ASSUME NEW y \in Int
      PROVE  y % 256 \in Byte /\ resADD_byte(y, n, m) \in Flags /\ resSUB_byte(y, n, m) \in Flags
  <2>1. (CarryInto(128, y, n, m) + CarryInto(256, y, n, m)) % 2 \in Flag
    <3>1. CarryInto(128, y, n, m) \in {0, 1} /\ CarryInto(256, y, n, m) \in {0, 1}
      BY <1>1, CarriesAreFlags DEF Flag
    <3>2. QED BY <3>1 DEF Flag
  <2>2. /\ Bit(y, 128) \in Flag /\ Yes(y % 256 = 0) \in Flag
        /\ CarryInto(16, y, n, m) \in Flag /\ CarryInto(256, y, n, m) \in Flag
    BY <1>1, BitIsFlag, YesIsFlag, CarriesAreFlags
  <2>3. 0 \in Flag /\ 1 \in Flag
    BY DEF Flag
  <2>4. resADD_byte(y, n, m) \in Flags
    BY <2>1, <2>2, <2>3 DEF resADD_byte, Flags
  <2>5. QED BY <2>3, <2>4, Cuts DEF resSUB_byte, Flags
<1>3. n + m + carry \in Int /\ (n - m - carry) % 65536 \in Int
  BY <1>1
<1>4. QED BY <1>2, <1>3 DEF Sum, Difference, Outcome

LEMMA LogicOutcome ==
  ASSUME NEW n \in Byte, NEW m \in Byte
  PROVE  Outcome(AND(n, m)) /\ Outcome(OR(n, m)) /\ Outcome(XOR(n, m))
<1>1. ASSUME NEW y \in Byte, NEW half \in Flag
      PROVE  Outcome(resLogic(y, half))
  <2>1. Bit(y, 128) \in Flag /\ Yes(y = 0) \in Flag /\ parity(y) \in Flag /\ 0 \in Flag
    BY BytesAreNumbers, BitIsFlag, YesIsFlag, ParityIsFlag DEF Flag
  <2>2. QED BY <2>1 DEF resLogic, Outcome, Flags
<1>2. /\ Both(n, m) \in Byte /\ n + m - Both(n, m) \in Byte
      /\ n + m - 2 * Both(n, m) \in Byte
  <2>1. n \in Int /\ m \in Int /\ 0 <= n /\ n <= 255 /\ 0 <= m /\ m <= 255
    BY DEF Byte
  <2>2. PICK b \in Int : b = Both(n, m) /\ 0 <= b /\ b <= n /\ b <= m /\ n + m - b <= 255
    BY BothIsBetween
  <2>3. b \in Byte /\ n + m - b \in Byte /\ n + m - 2 * b \in Byte
    BY <2>1, <2>2 DEF Byte
  <2>4. QED BY <2>2, <2>3
<1>3. QED BY <1>1, <1>2 DEF AND, OR, XOR, Flag

LEMMA OperationOutcome ==
  ASSUME NEW op \in Operations, NEW a \in Byte, NEW v \in Byte, NEW f \in Flags
  PROVE  Outcome(Computed(op, a, v, f))
<1>1. f.c \in Flag /\ 0 \in Flag
  BY DEF Flags, Flag
<1>2. /\ Outcome(ADD(a, v)) /\ Outcome(ADC(a, v, f)) /\ Outcome(SUB(a, v))
      /\ Outcome(SBC(a, v, f))
  BY <1>1, SumOutcome DEF ADD, ADC, SUB, SBC
<1>3. Outcome(CP(a, v))
  BY <1>2 DEF CP, Outcome
<1>4. QED BY <1>2, <1>3, LogicOutcome DEF Computed, Operations

LEMMA RotationOutcome ==
  ASSUME NEW y \in Int, NEW out \in Flag
  PROVE  Outcome(resROT_byte(y, out))
<1>1. Bit(y, 128) \in Flag /\ Yes(y % 256 = 0) \in Flag /\ parity(y) \in Flag /\ 0 \in Flag
  BY BitIsFlag, YesIsFlag, ParityIsFlag DEF Flag
<1>2. QED BY <1>1, Cuts DEF resROT_byte, Outcome, Flags

LEMMA RotationsOutcome ==
  ASSUME NEW v \in Byte, NEW f \in Flags
  PROVE  /\ Outcome(RLC(v)) /\ Outcome(RRC(v)) /\ Outcome(RL(v, f)) /\ Outcome(RR(v, f))
         /\ Outcome(SLA(v)) /\ Outcome(SRA(v)) /\ Outcome(SLL(v)) /\ Outcome(SRL(v))
<1>1. /\ v \in Int /\ v \div 2 \in Int /\ f.c \in Int
      /\ Bit(v, 1) \in Int /\ Bit(v, 128) \in Int
      /\ Bit(v, 1) \in Flag /\ Bit(v, 128) \in Flag
  BY BytesAreNumbers, BitIsFlag DEF Flags, Flag
<1>2. QED BY <1>1, RotationOutcome DEF RLC, RRC, RL, RR, SLA, SRA, SLL, SRL

LEMMA ChangeOutcome ==
  ASSUME NEW op \in Changes, NEW v \in Byte, NEW f \in Flags
  PROVE  Outcome(Changed(op, v, f))
<1>1. Outcome(INC(v, f)) /\ Outcome(DEC(v, f))
  <2>1. ASSUME NEW y \in Byte, NEW half \in Flag, NEW ovf \in Flag, NEW n \in Flag
        PROVE  [s |-> Bit(y, 128), z |-> Yes(y = 0), h |-> half, p |-> ovf, n |-> n,
                c |-> f.c] \in Flags
    <3>1. Bit(y, 128) \in Flag /\ Yes(y = 0) \in Flag /\ f.c \in Flag
      BY BytesAreNumbers, BitIsFlag, YesIsFlag DEF Flags
    <3>2. QED BY <3>1 DEF Flags
  <2>2. (v + 1) % 256 \in Byte /\ (v + 255) % 256 \in Byte
    BY BytesAreNumbers, Cuts
  <2>3. 0 \in Flag /\ 1 \in Flag
    BY DEF Flag
  <2>4. QED BY <2>1, <2>2, <2>3, YesIsFlag DEF INC, DEC, Outcome
<1>2. QED BY <1>1, RotationsOutcome DEF Changed, Changes, OnBytes, Bits


LEMMA AdjustOutcome ==
  ASSUME NEW a \in Byte, NEW f \in Flags
  PROVE  /\ Outcome(DAA(a, f)) /\ Outcome(CPL(a, f)) /\ Outcome(NEG(a))
         /\ SCF(f) \in Flags /\ CCF(f) \in Flags
<1>1. f.c \in {0, 1} /\ f.n \in Flag /\ 0 \in Flag /\ 1 \in Flag
  BY DEF Flags, Flag
<1>2. Outcome(DAA(a, f))
  <2> DEFINE diff == DAADiff(a \div 16, a % 16, f)
             y == (IF f.n = 1 THEN a - diff ELSE a + diff) % 256
  <2>1. diff \in Int
    BY DEF DAADiff
  <2>2. y \in Byte
    <3>1. a \in Int
      BY BytesAreNumbers
    <3>2. (IF f.n = 1 THEN a - diff ELSE a + diff) \in Int
      BY <2>1, <3>1
    <3>3. QED BY <3>2, Cuts
  <2> HIDE DEF y
  <2>3. Bit(y, 128) \in Flag /\ parity(y) \in Flag
    BY <2>2, BytesAreNumbers, BitIsFlag, ParityIsFlag
  <2>4. \A b : Yes(b) \in Flag
    BY YesIsFlag
  <2>5. QED BY <1>1, <2>2, <2>3, <2>4 DEF DAA, Outcome, Flags, y
<1>3. Outcome(CPL(a, f))
  <2>1. 255 - a \in Byte
    BY DEF Byte
  <2>2. QED BY <1>1, <2>1 DEF CPL, Outcome, Flags
<1>4. Outcome(NEG(a))
  <2>1. 0 \in Byte
    BY DEF Byte
  <2>2. QED BY <1>1, <2>1, SumOutcome DEF NEG
<1>5. SCF(f) \in Flags
  BY <1>1 DEF SCF, Flags
<1>6. CCF(f) \in Flags
  <2>1. 1 - f.c \in Flag
    BY <1>1 DEF Flag
  <2>2. QED BY <1>1, <2>1 DEF CCF, Flags
<1>7. QED BY <1>2, <1>3, <1>4, <1>5, <1>6

LEMMA DigitsOutcome ==
  ASSUME NEW a \in Byte, NEW m \in Byte, NEW f \in Flags
  PROVE  /\ Outcome(RLD(a, m, f)) /\ RLD(a, m, f).m \in Byte
         /\ Outcome(RRD(a, m, f)) /\ RRD(a, m, f).m \in Byte
<1>1. ASSUME NEW y \in Byte, NEW l \in Byte
      PROVE  Outcome(resROTD_byte(y, l, f)) /\ resROTD_byte(y, l, f).m \in Byte
  <2>1. Bit(y, 128) \in Flag /\ Yes(y = 0) \in Flag /\ parity(y) \in Flag /\ 0 \in Flag
    BY BytesAreNumbers, BitIsFlag, YesIsFlag, ParityIsFlag DEF Flag
  <2>2. QED BY <2>1 DEF resROTD_byte, Outcome, Flags
<1>2. /\ a \div 16 \in 0..15 /\ a % 16 \in 0..15
      /\ m \div 16 \in 0..15 /\ m % 16 \in 0..15
  BY DEF Byte
<1>3. \A i, j \in 0..15 : 16 * i + j \in Byte
  BY DEF Byte
<1>4. QED BY <1>1, <1>2, <1>3 DEF RLD, RRD

LEMMA WideOutcome ==
  ASSUME NEW x \in Word, NEW y \in Word, NEW f \in Flags
  PROVE  /\ ADD16(x, y, f).r \in Int /\ ADD16(x, y, f).f \in Flags
         /\ ADC16(x, y, f).r \in Int /\ ADC16(x, y, f).f \in Flags
         /\ SBC16(x, y, f).r \in Int /\ SBC16(x, y, f).f \in Flags
<1>1. x \in Int /\ y \in Int /\ f.c \in Int
  BY BytesAreNumbers DEF Flags, Flag
<1>2. 0 \in Flag /\ 1 \in Flag
  BY DEF Flag
<1>3. ADD16(x, y, f).r \in Int /\ ADD16(x, y, f).f \in Flags
  <2>1. PICK v \in Int : v = x + y /\ v % 65536 \in Int
    BY <1>1
  <2>2. CarryInto(4096, v, x, y) \in Flag /\ CarryInto(65536, v, x, y) \in Flag
    BY <1>1, CarriesAreFlags
  <2>3. PICK h \in Flag, c \in Flag :
          h = CarryInto(4096, v, x, y) /\ c = CarryInto(65536, v, x, y)
    BY <2>2
  <2>4. [f EXCEPT !.h = h, !.n = 0, !.c = c] \in Flags
    BY <1>2 DEF Flags
  <2>5. ADD16(x, y, f) = [r |-> v % 65536, f |-> [f EXCEPT !.h = h, !.n = 0, !.c = c]]
    BY <2>1, <2>3 DEF ADD16
  <2>6. QED BY <2>1, <2>4, <2>5
<1>4. ASSUME NEW v \in Int, NEW neg \in Flag
      PROVE  res16(v, x, y, neg).r \in Int /\ res16(v, x, y, neg).f \in Flags
  <2>1. /\ CarryInto(4096, v, x, y) \in Flag /\ CarryInto(32768, v, x, y) \in Flag
        /\ CarryInto(65536, v, x, y) \in Flag
    BY <1>1, CarriesAreFlags
  <2>2. (CarryInto(32768, v, x, y) + CarryInto(65536, v, x, y)) % 2 \in Flag
    BY <2>1 DEF Flag
  <2>3. Bit(v, 32768) \in Flag /\ Yes(v = 0) \in Flag
    BY BitIsFlag, YesIsFlag
  <2>4. v % 65536 \in Int
    OBVIOUS
  <2>5. QED BY <2>1, <2>2, <2>3, <2>4 DEF res16, Flags
<1>5. x + y + f.c \in Int /\ (x - y - f.c) % 131072 \in Int
  BY <1>1
<1>6. QED BY <1>2, <1>3, <1>4, <1>5 DEF ADC16, SBC16


-------------------------------------------------------------------------------
(* What the instructions are made of keeps a processor a processor. *)

\* w is a processor that is to go on as z is.
Like(w, z) == IsProcessor(w) /\ w.mode = z.mode

RegPair == {"BC", "DE", "HL", "IX", "IY"}

LEMMA RegistersSplit ==
  ASSUME NEW p \in RegPair
  PROVE  /\ p \notin {"SP", "AF"} /\ Hi[p] \in RegName /\ Lo[p] \in RegName
         /\ Hi[p] # "A" /\ Lo[p] # "A"
BY DEF RegPair, Hi, Lo, RegName

LEMMA MemoryIsBytes ==
  ASSUME NEW z, IsProcessor(z), NEW a
  PROVE  read(z.mem, a) \in Byte
<1>1. Blank \in Byte
  BY BlankAssumption DEF Byte
<1>2. QED BY <1>1 DEF read, IsProcessor

LEMMA WordsInMemory ==
  ASSUME NEW z, IsProcessor(z), NEW a
  PROVE  readWord(z.mem, a) \in Word
<1>1. read(z.mem, a) \in Byte /\ read(z.mem, a + 1) \in Byte
  BY MemoryIsBytes
<1>2. QED BY <1>1, HalvesOfAWord DEF readWord, Byte, Word

\* The processor as it is read.
LEMMA Readings ==
  ASSUME NEW z, IsProcessor(z)
  PROVE  /\ Imm8(z) \in Byte /\ Imm16(z) \in Word /\ Top(z) \in Word
         /\ Signed(Imm8(z)) \in Int
         /\ FByte(z.f) \in Byte
<1>1. Imm8(z) \in Byte /\ Imm16(z) \in Word /\ Top(z) \in Word
  BY MemoryIsBytes, WordsInMemory DEF Imm8, Imm16, Top
<1>2. Signed(Imm8(z)) \in Int
  BY <1>1 DEF Signed, Byte
<1>3. FByte(z.f) \in Byte
  <2>1. z.f \in Flags
    BY DEF IsProcessor
  <2>2. \A b \in Flag : b \in Int /\ 0 <= b /\ b <= 1
    BY DEF Flag
  <2>3. PICK s \in Flag, y \in Flag, h \in Flag, p \in Flag, n \in Flag, c \in Flag :
          z.f.s = s /\ z.f.z = y /\ z.f.h = h /\ z.f.p = p /\ z.f.n = n /\ z.f.c = c
    BY <2>1 DEF Flags
  <2>4. FByte(z.f) = 128 * s + 64 * y + 16 * h + 4 * p + 2 * n + c
    BY <2>3 DEF FByte
  <2>5. QED BY <2>2, <2>4 DEF Byte
<1>4. QED BY <1>1, <1>2, <1>3

LEMMA RegisterIsByte ==
  ASSUME NEW z, IsProcessor(z), NEW n \in RegName PROVE z.r[n] \in Byte
BY DEF IsProcessor

LEMMA PairIsWord ==
  ASSUME NEW z, IsProcessor(z), NEW p \in RegPair \cup {"SP", "AF"}
  PROVE  Pair16(z, p) \in Word /\ Pair16(z, p) \in Int
<1>1. CASE p = "SP"
  BY <1>1, BytesAreNumbers DEF Pair16, IsProcessor
<1>2. CASE p = "AF"
  <2>1. z.r["A"] \in Byte /\ FByte(z.f) \in Byte
    BY Readings, RegisterIsByte DEF RegName
  <2>2. QED BY <1>2, <2>1, HalvesOfAWord, BytesAreNumbers DEF Pair16
<1>3. CASE p \in RegPair
  <2>1. p \notin {"SP", "AF"} /\ z.r[Hi[p]] \in Byte /\ z.r[Lo[p]] \in Byte
    BY <1>3, RegistersSplit, RegisterIsByte
  <2>2. Pair16(z, p) = 256 * z.r[Hi[p]] + z.r[Lo[p]]
    BY <2>1 DEF Pair16
  <2>3. QED BY <2>1, <2>2, HalvesOfAWord, BytesAreNumbers
<1>4. QED BY <1>1, <1>2, <1>3

LEMMA LikeItself == ASSUME NEW z, IsProcessor(z) PROVE Like(z, z)
BY DEF Like

LEMMA Set8Keeps ==
  ASSUME NEW z, NEW w, Like(w, z), NEW n \in RegName, NEW v \in Byte
  PROVE  Like(Set8(w, n, v), z)
BY DEF Like, IsProcessor, Set8

LEMMA FlagsKeep ==
  ASSUME NEW z, NEW w, Like(w, z), NEW f \in Flags
  PROVE  Like([w EXCEPT !.f = f], z)
BY DEF Like, IsProcessor

LEMMA PointerKeeps ==
  ASSUME NEW z, NEW w, Like(w, z), NEW v \in Int
  PROVE  Like([w EXCEPT !.sp = v % 65536], z)
<1>1. v % 65536 \in Word
  BY Cuts
<1>2. QED BY <1>1 DEF Like, IsProcessor

LEMMA ToKeeps ==
  ASSUME NEW z, NEW w, Like(w, z), NEW v \in Int
  PROVE  Like(To(w, v), z)
<1>1. v % 65536 \in Word
  BY Cuts
<1>2. QED BY <1>1 DEF Like, IsProcessor, To

LEMMA SkipKeeps ==
  ASSUME NEW z, NEW w, Like(w, z), NEW k \in Int
  PROVE  Like(Skip(w, k), z) /\ Like(Pop(w), z)
<1>1. w.pc + k \in Int /\ w.sp + 2 \in Int
  <2>1. w.pc \in Int /\ w.sp \in Int
    BY BytesAreNumbers DEF Like, IsProcessor
  <2>2. QED BY <2>1
<1>2. (w.pc + k) % 65536 \in Word /\ (w.sp + 2) % 65536 \in Word
  BY <1>1, Cuts
<1>3. QED BY <1>2 DEF Like, IsProcessor, Skip, Pop

IsMemory(mem) == DOMAIN mem \subseteq Word /\ \A a \in DOMAIN mem : mem[a] \in Byte

LEMMA WriteKeeps ==
  ASSUME NEW mem, IsMemory(mem), NEW a \in Int, NEW b \in Byte
  PROVE  IsMemory(write(mem, a, b))
<1>1. a % 65536 \in Word
  BY Cuts
<1>2. QED BY <1>1 DEF write, IsMemory

LEMMA WriteWordKeeps ==
  ASSUME NEW mem, IsMemory(mem), NEW a \in Int, NEW v \in Word
  PROVE  IsMemory(writeWord(mem, a, v))
<1>1. v % 256 \in Byte /\ v \div 256 \in Byte
  BY WordHalves
<1>2. IsMemory(write(mem, a, v % 256))
  BY <1>1, WriteKeeps
<1>3. a + 1 \in Int
  OBVIOUS
<1>4. QED BY <1>1, <1>2, <1>3, WriteKeeps DEF writeWord

LEMMA MemoryOf ==
  ASSUME NEW z, NEW w, Like(w, z), NEW mem, IsMemory(mem)
  PROVE  IsMemory(w.mem) /\ Like([w EXCEPT !.mem = mem], z)
BY DEF Like, IsProcessor, IsMemory

LEMMA PutKeeps ==
  ASSUME NEW z, NEW w, Like(w, z), NEW a \in Int, NEW v \in Int
  PROVE  Like(Put(w, a, v), z)
<1>1. v % 256 \in Byte
  BY Cuts
<1>2. IsMemory(w.mem)
  BY DEF Like, IsProcessor, IsMemory
<1>3. IsMemory(write(w.mem, a, v % 256))
  BY <1>1, <1>2, WriteKeeps
<1>4. QED BY <1>3, MemoryOf DEF Put

LEMMA WordKept ==
  ASSUME NEW z, NEW w, Like(w, z), NEW a \in Int, NEW v \in Word
  PROVE  Like([w EXCEPT !.mem = writeWord(@, a, v)], z)
<1>1. IsMemory(w.mem)
  BY DEF Like, IsProcessor, IsMemory
<1>2. IsMemory(writeWord(w.mem, a, v))
  BY <1>1, WriteWordKeeps
<1>3. QED BY <1>2, MemoryOf

LEMMA PushKeeps ==
  ASSUME NEW z, NEW w, Like(w, z), NEW v \in Word
  PROVE  Like(Push(w, v), z)
<1> DEFINE s == (w.sp + 65534) % 65536
<1>1. s \in Word /\ s \in Int
  <2>1. w.sp \in Int
    BY BytesAreNumbers DEF Like, IsProcessor
  <2>2. w.sp + 65534 \in Int
    BY <2>1
  <2>3. QED BY <2>2, Cuts, BytesAreNumbers
<1>2. Like([w EXCEPT !.sp = s], z)
  BY <1>1 DEF Like, IsProcessor
<1>3. IsMemory(w.mem)
  BY DEF Like, IsProcessor, IsMemory
<1>4. IsMemory(writeWord(w.mem, s, v))
  BY <1>1, <1>3, WriteWordKeeps
<1> HIDE DEF s
<1>5. Like([w EXCEPT !.sp = s, !.mem = writeWord(@, s, v)], z)
  BY <1>1, <1>4 DEF Like, IsProcessor, IsMemory
<1>6. QED BY <1>5 DEF Push, s

LEMMA Set16Keeps ==
  ASSUME NEW z, NEW w, Like(w, z), NEW p \in RegPair \cup {"SP", "AF"}, NEW v \in Int,
         p = "AF" => v \in Word
  PROVE  Like(Set16(w, p, v), z)
<1>1. CASE p = "SP"
  BY <1>1, PointerKeeps DEF Set16
<1>2. CASE p = "AF"
  <2>1. v \div 256 \in Byte /\ v % 256 \in Int
    BY <1>2, WordHalves, BytesAreNumbers
  <2>2. FlagsOf(v % 256) \in Flags
    BY <2>1, BitIsFlag DEF FlagsOf, Flags
  <2>3. "A" \in RegName
    BY DEF RegName
  <2>4. Set16(w, p, v) = [w EXCEPT !.r["A"] = v \div 256, !.f = FlagsOf(v % 256)]
    BY <1>2 DEF Set16
  <2>5. QED BY <2>1, <2>2, <2>3, <2>4 DEF Like, IsProcessor
<1>3. CASE p \in RegPair
  <2>1. (v % 65536) \div 256 \in Byte /\ v % 256 \in Byte
    BY Cuts
  <2>2. p \notin {"SP", "AF"} /\ Hi[p] \in RegName /\ Lo[p] \in RegName
    BY <1>3, RegistersSplit
  <2>3. Set16(w, p, v) = [w EXCEPT !.r[Hi[p]] = (v % 65536) \div 256, !.r[Lo[p]] = v % 256]
    BY <2>2 DEF Set16
  <2>4. QED BY <2>1, <2>2, <2>3 DEF Like, IsProcessor
<1>4. QED BY <1>1, <1>2, <1>3


-------------------------------------------------------------------------------
(* The tables: every entry has the operands that its family goes by. *)

Reg8 == {"A", "B", "C", "D", "E", "H", "L"}
Pointers == {"(HL)", "(BC)", "(DE)"}
Wide4 == {"BC", "DE", "HL", "SP"}
Controls == {"NOP", "Z80EXT", "HALT", "DI", "EI", "IM"}

Families ==
  ByteLoads \cup WordLoads \cup Exchanges \cup Blocks \cup Operations \cup Generals
  \cup Changes \cup Bits \cup Wides \cup Jumps \cup Calls \cup Returns \cup Ports \cup Controls

LoadFits(i) ==
  /\ i.op = "LD_R_R" => i.x \in Reg8 \cup {"I", "R"} /\ i.y \in Reg8
  /\ i.op = "LDS_A_R" => i.y \in {"I", "R"}
  /\ i.op = "LD_R_b" => i.x \in Reg8
  /\ i.op = "LD_R_ATRX" => i.x \in Reg8 /\ i.y \in Pointers
  /\ i.op = "LD_ATRX_R" => i.x \in Pointers /\ i.y \in Reg8
  /\ i.op = "LD_R_ATw" => i.x = "A"
  /\ i.op = "LD_ATw_R" => i.y = "A"
  /\ i.op \in {"LD_RX_w", "LD_RX_ATw", "LD_RX_RX"} => i.x \in Wide4
  /\ i.op \in {"LD_ATw_RX", "LD_RX_RX"} => i.y \in Wide4
  /\ i.op \in {"PUSH_RX", "POP_RX"} => i.x \in Wide4 \cup {"AF"}

OtherFits(i) ==
  /\ i.op \in Operations => i.x \in Reg8 \cup {"(HL)", "n"}
  /\ i.op \in Changes => i.x \in Reg8 \cup {"(HL)"}
  /\ i.op \in Bits => i.x \in 0..7 /\ i.y \in Reg8 \cup {"(HL)"}
  /\ i.op \in Wides => i.x \in Wide4 /\ i.y \in Wide4 \cup {""}
  /\ i.op = "RST" => i.x \in Int
  /\ i.op = "IN_R_ATR" => i.x \in Reg8
  /\ i.op = "IM" => i.x \in {0, 1, 2}

Fits(i) == i.op \in Families /\ LoadFits(i) /\ OtherFits(i)

LEMMA OperandTables ==
  ASSUME NEW k \in 0..7
  PROVE  /\ R8(k) \in Reg8 \cup {"(HL)"} /\ (k # 6 => R8(k) \in Reg8)
         /\ RX(k % 4) \in Wide4
         /\ Arithmetic[k + 1] \in Operations
         /\ OnA[k + 1] \in Generals \ {"RLD", "RRD"}
<1>1. k \in {0, 1, 2, 3, 4, 5, 6, 7} /\ k % 4 \in {0, 1, 2, 3}
  OBVIOUS
<1>2. R8(k) \in Reg8 \cup {"(HL)"} /\ (k # 6 => R8(k) \in Reg8)
  BY <1>1 DEF R8, Reg8
<1>3. RX(k % 4) \in Wide4
  BY <1>1 DEF RX, Wide4
<1>4. Arithmetic[k + 1] \in Operations
  BY <1>1 DEF Arithmetic, Operations
<1>5. OnA[k + 1] \in Generals \ {"RLD", "RRD"}
  BY <1>1 DEF OnA, Generals
<1>6. QED BY <1>2, <1>3, <1>4, <1>5

LEMMA Digits ==
  ASSUME NEW n \in 0..255
  PROVE  /\ Row(n) \in 0..7 /\ Column(n) \in 0..7 /\ Pair(n) \in Wide4
         /\ R8(Row(n)) \in Reg8 \cup {"(HL)"} /\ R8(Column(n)) \in Reg8 \cup {"(HL)"}
         /\ Row(n) # 6 => R8(Row(n)) \in Reg8
         /\ Column(n) # 6 => R8(Column(n)) \in Reg8
<1>1. Row(n) \in 0..7 /\ Column(n) \in 0..7
  BY DEF Row, Column
<1>2. (n \div 16) % 4 \in {0, 1, 2, 3}
  OBVIOUS
<1>3. Pair(n) \in Wide4
  BY <1>2 DEF Pair, RX, Wide4
<1>4. QED BY <1>1, <1>3, OperandTables

\* An entry of an operation that asks nothing of its operands.
Free == Exchanges \cup Blocks \cup Generals \cup Jumps \cup Returns
        \cup {"CALL", "IN_R_ATb", "OUT_ATb_R", "OUT_ATR_R"} \cup (Controls \ {"IM"})

LEMMA FreeFits ==
  ASSUME NEW op \in Free, NEW x, NEW y PROVE Fits(Instr(op, x, y))
<1> DEFINE i == Instr(op, x, y)
<1>1. i.op = op
  BY DEF Instr
<1> HIDE DEF i
<1>2. i.op \in Families
  BY <1>1 DEF Free, Families, Calls, Ports
<1>3. LoadFits(i)
  BY <1>1 DEF LoadFits, Free, Exchanges, Blocks, Generals, Jumps, Returns, Controls, Moving,
              Comparing, Receiving, Sending
<1>4. OtherFits(i)
  BY <1>1 DEF OtherFits, Free, Exchanges, Blocks, Generals, Jumps, Returns, Controls,
    Moving,
              Comparing, Receiving, Sending, Operations, Changes, OnBytes, Bits, Wides
<1>5. QED BY <1>2, <1>3, <1>4 DEF Fits, i

LEMMA LoadsFit ==
  ASSUME NEW x, NEW y, NEW op,
         \/ op = "LD_R_R" /\ x \in Reg8 \cup {"I", "R"} /\ y \in Reg8
         \/ op = "LDS_A_R" /\ y \in {"I", "R"}
         \/ op = "LD_R_b" /\ x \in Reg8
         \/ op = "LD_R_ATRX" /\ x \in Reg8 /\ y \in Pointers
         \/ op = "LD_ATRX_R" /\ x \in Pointers /\ y \in Reg8
         \/ op = "LD_ATRX_b"
         \/ op = "LD_R_ATw" /\ x = "A"
         \/ op = "LD_ATw_R" /\ y = "A"
         \/ op \in {"LD_RX_w", "LD_RX_ATw"} /\ x \in Wide4
         \/ op = "LD_ATw_RX" /\ y \in Wide4
         \/ op = "LD_RX_RX" /\ x \in Wide4 /\ y \in Wide4
         \/ op \in {"PUSH_RX", "POP_RX"} /\ x \in Wide4 \cup {"AF"}
  PROVE  Fits(Instr(op, x, y))
<1> DEFINE i == Instr(op, x, y)
<1>1. i.op = op /\ i.x = x /\ i.y = y
  BY DEF Instr
<1> HIDE DEF i
<1>2. op \in ByteLoads \cup WordLoads
  BY DEF ByteLoads, WordLoads
<1>3. LoadFits(i)
  BY <1>1 DEF LoadFits
<1>4. OtherFits(i)
  BY <1>1, <1>2 DEF OtherFits, ByteLoads, WordLoads, Operations, Changes, OnBytes, Bits,
    Wides
<1>5. QED BY <1>1, <1>2, <1>3, <1>4 DEF Fits, Families, i

LEMMA StackFits ==
  ASSUME NEW x \in Wide4 \cup {"AF"}, NEW y
  PROVE  Fits(Instr("PUSH_RX", x, y)) /\ Fits(Instr("POP_RX", x, y))
<1>1. ASSUME NEW op \in {"PUSH_RX", "POP_RX"} PROVE Fits(Instr(op, x, y))
  BY LoadsFit
<1>2. QED BY <1>1

LEMMA OthersFit ==
  ASSUME NEW x, NEW y, NEW op,
         \/ op \in Operations /\ x \in Reg8 \cup {"(HL)", "n"}
         \/ op \in Changes /\ x \in Reg8 \cup {"(HL)"}
         \/ op \in Bits /\ x \in 0..7 /\ y \in Reg8 \cup {"(HL)"}
         \/ op \in Wides /\ x \in Wide4 /\ y \in Wide4 \cup {""}
         \/ op = "RST" /\ x \in Int
         \/ op = "IN_R_ATR" /\ x \in Reg8
         \/ op = "IM" /\ x \in {0, 1, 2}
  PROVE  Fits(Instr(op, x, y))
<1> DEFINE i == Instr(op, x, y)
<1>1. i.op = op /\ i.x = x /\ i.y = y
  BY DEF Instr
<1> HIDE DEF i
<1>2. op \in Families
  BY DEF Families, Calls, Ports, Controls
<1>3. LoadFits(i)
  BY <1>1 DEF LoadFits, Operations, Changes, OnBytes, Bits, Wides
<1>4. OtherFits(i)
  BY <1>1 DEF OtherFits, Operations, Changes, OnBytes, Bits, Wides
<1>5. QED BY <1>1, <1>2, <1>3, <1>4 DEF Fits, i

\* The table's first quarter, entry by entry.
LEMMA LowTable ==
  ASSUME NEW n \in 0..63
  PROVE  /\ n = 0 => Low(n) = Instr("NOP", "", "")
         /\ n = 8 => Low(n) = Instr("EX_AF_AFP", "", "")
         /\ n = 16 => Low(n) = Instr("DJNZ", "", "")
         /\ n = 24 => Low(n) = Instr("JR", "always", "")
         /\ Column(n) = 0 /\ n >= 32 => Low(n) = Instr("JR", CC(Row(n) - 4), "")
         /\ Column(n) = 1 =>
              Low(n) = IF Row(n) % 2 = 0 THEN Instr("LD_RX_w", Pair(n), "")
                       ELSE Instr("ADD_RX_RX", "HL", Pair(n))
         /\ Column(n) = 2 =>
              /\ Row(n) = 0 => Low(n) = Instr("LD_ATRX_R", "(BC)", "A")
              /\ Row(n) = 1 => Low(n) = Instr("LD_R_ATRX", "A", "(BC)")
              /\ Row(n) = 2 => Low(n) = Instr("LD_ATRX_R", "(DE)", "A")
              /\ Row(n) = 3 => Low(n) = Instr("LD_R_ATRX", "A", "(DE)")
              /\ Row(n) = 4 => Low(n) = Instr("LD_ATw_RX", "", "HL")
              /\ Row(n) = 5 => Low(n) = Instr("LD_RX_ATw", "HL", "")
              /\ Row(n) = 6 => Low(n) = Instr("LD_ATw_R", "", "A")
              /\ Row(n) = 7 => Low(n) = Instr("LD_R_ATw", "A", "")
         /\ Column(n) = 3 =>
              Low(n) = Instr(IF Row(n) % 2 = 0 THEN "INC_RX" ELSE "DEC_RX", Pair(n), "")
         /\ Column(n) = 4 => Low(n) = Instr("INC", R8(Row(n)), "")
         /\ Column(n) = 5 => Low(n) = Instr("DEC", R8(Row(n)), "")
         /\ Column(n) = 6 =>
              Low(n) = Instr(IF n = 54 THEN "LD_ATRX_b" ELSE "LD_R_b", R8(Row(n)), "")
         /\ Column(n) = 7 => Low(n) = Instr(OnA[Row(n) + 1], "", "")
<1>1. Row(n) \in 0..7 /\ Column(n) \in 0..7
  BY DEF Row, Column
<1>2. Column(n) = 0 <=> n \in {0, 8, 16, 24} \/ (n \notin {0, 8, 16, 24} /\ n >= 32 /\ Column(n) = 0)
  BY DEF Column
<1>3. /\ n = 0 => Low(n) = Instr("NOP", "", "")
      /\ n = 8 => Low(n) = Instr("EX_AF_AFP", "", "")
      /\ n = 16 => Low(n) = Instr("DJNZ", "", "")
      /\ n = 24 => Low(n) = Instr("JR", "always", "")
      /\ Column(n) = 0 /\ n >= 32 => Low(n) = Instr("JR", CC(Row(n) - 4), "")
  <2>1. ASSUME n = 0 PROVE Low(n) = Instr("NOP", "", "")
    <3>1. Column(n) = 0
      BY <1>2, <2>1
    <3>2. QED BY <3>1, <2>1 DEF Low
  <2>2. ASSUME n = 8 PROVE Low(n) = Instr("EX_AF_AFP", "", "")
    <3>1. Column(n) = 0
      BY <1>2, <2>2
    <3>2. QED BY <3>1, <2>2 DEF Low
  <2>3. ASSUME n = 16 PROVE Low(n) = Instr("DJNZ", "", "")
    <3>1. Column(n) = 0
      BY <1>2, <2>3
    <3>2. QED BY <3>1, <2>3 DEF Low
  <2>4. ASSUME n = 24 PROVE Low(n) = Instr("JR", "always", "")
    <3>1. Column(n) = 0
      BY <1>2, <2>4
    <3>2. QED BY <3>1, <2>4 DEF Low
  <2>5. Column(n) = 0 /\ n >= 32 => Low(n) = Instr("JR", CC(Row(n) - 4), "")
    BY <1>2 DEF Low
  <2>6. QED BY <2>1, <2>2, <2>3, <2>4, <2>5
<1>4. Column(n) # 0 => n \notin {0, 8, 16, 24}
  BY <1>2
<1>5. Column(n) = 1 =>
        Low(n) = IF Row(n) % 2 = 0 THEN Instr("LD_RX_w", Pair(n), "")
                 ELSE Instr("ADD_RX_RX", "HL", Pair(n))
  BY <1>4 DEF Low
<1>6. ASSUME Column(n) = 2
      PROVE  /\ Row(n) = 0 => Low(n) = Instr("LD_ATRX_R", "(BC)", "A")
             /\ Row(n) = 1 => Low(n) = Instr("LD_R_ATRX", "A", "(BC)")
             /\ Row(n) = 2 => Low(n) = Instr("LD_ATRX_R", "(DE)", "A")
             /\ Row(n) = 3 => Low(n) = Instr("LD_R_ATRX", "A", "(DE)")
             /\ Row(n) = 4 => Low(n) = Instr("LD_ATw_RX", "", "HL")
             /\ Row(n) = 5 => Low(n) = Instr("LD_RX_ATw", "HL", "")
             /\ Row(n) = 6 => Low(n) = Instr("LD_ATw_R", "", "A")
             /\ Row(n) = 7 => Low(n) = Instr("LD_R_ATw", "A", "")
  <2>1. Row(n) = 0 => Low(n) = Instr("LD_ATRX_R", "(BC)", "A")
    BY <1>4, <1>6 DEF Low
  <2>2. Row(n) = 1 => Low(n) = Instr("LD_R_ATRX", "A", "(BC)")
    BY <1>4, <1>6 DEF Low
  <2>3. Row(n) = 2 => Low(n) = Instr("LD_ATRX_R", "(DE)", "A")
    BY <1>4, <1>6 DEF Low
  <2>4. Row(n) = 3 => Low(n) = Instr("LD_R_ATRX", "A", "(DE)")
    BY <1>4, <1>6 DEF Low
  <2>5. Row(n) = 4 => Low(n) = Instr("LD_ATw_RX", "", "HL")
    BY <1>4, <1>6 DEF Low
  <2>6. Row(n) = 5 => Low(n) = Instr("LD_RX_ATw", "HL", "")
    BY <1>4, <1>6 DEF Low
  <2>7. Row(n) = 6 => Low(n) = Instr("LD_ATw_R", "", "A")
    BY <1>4, <1>6 DEF Low
  <2>8. Row(n) = 7 => Low(n) = Instr("LD_R_ATw", "A", "")
    BY <1>4, <1>6 DEF Low
  <2>9. QED BY <2>1, <2>2, <2>3, <2>4, <2>5, <2>6, <2>7, <2>8
<1>7. Column(n) = 3 =>
        Low(n) = Instr(IF Row(n) % 2 = 0 THEN "INC_RX" ELSE "DEC_RX", Pair(n), "")
  BY <1>4 DEF Low
<1>8. /\ Column(n) = 4 => Low(n) = Instr("INC", R8(Row(n)), "")
      /\ Column(n) = 5 => Low(n) = Instr("DEC", R8(Row(n)), "")
      /\ Column(n) = 7 => Low(n) = Instr(OnA[Row(n) + 1], "", "")
  <2>1. Column(n) = 4 => Low(n) = Instr("INC", R8(Row(n)), "")
    BY <1>4 DEF Low
  <2>2. Column(n) = 5 => Low(n) = Instr("DEC", R8(Row(n)), "")
    BY <1>4 DEF Low
  <2>3. Column(n) = 7 => Low(n) = Instr(OnA[Row(n) + 1], "", "")
    BY <1>4 DEF Low
  <2>4. QED BY <2>1, <2>2, <2>3
<1>9. Column(n) = 6 =>
        Low(n) = Instr(IF n = 54 THEN "LD_ATRX_b" ELSE "LD_R_b", R8(Row(n)), "")
  BY <1>4 DEF Low
<1>10. n \in {0, 8, 16, 24} => Column(n) = 0
  BY <1>2
<1>11. QED BY <1>3, <1>5, <1>6, <1>7, <1>8, <1>9, <1>10

LEMMA LowFits == ASSUME NEW n \in 0..63 PROVE Fits(Low(n))
<1> DEFINE first == Row(n) % 2 = 0
<1>1. /\ Row(n) \in 0..7 /\ Column(n) \in {0, 1, 2, 3, 4, 5, 6, 7} /\ Pair(n) \in Wide4
      /\ R8(Row(n)) \in Reg8 \cup {"(HL)"} /\ (Row(n) # 6 => R8(Row(n)) \in Reg8)
  <2>1. n \in 0..255
    OBVIOUS
  <2>2. QED BY <2>1, Digits
<1>3. CASE Column(n) = 0
  <2>1. n \in {0, 8, 16, 24} \/ (n \notin {0, 8, 16, 24} /\ n >= 32)
    BY <1>3 DEF Column
  <2>2. \A op \in {"NOP", "EX_AF_AFP", "DJNZ", "JR"} : op \in Free
    BY DEF Free, Controls, Exchanges, Jumps
  <2>3. ASSUME NEW x
        PROVE  /\ Fits(Instr("NOP", x, "")) /\ Fits(Instr("EX_AF_AFP", x, ""))
               /\ Fits(Instr("DJNZ", x, "")) /\ Fits(Instr("JR", x, ""))
    BY <2>2, FreeFits
  <2>4. CASE n = 0
    <3>1. Low(n) = Instr("NOP", "", "")
      BY <1>3, <2>4, LowTable
    <3>2. QED BY <2>3, <3>1
  <2>5. CASE n = 8
    <3>1. Low(n) = Instr("EX_AF_AFP", "", "")
      BY <1>3, <2>5, LowTable
    <3>2. QED BY <2>3, <3>1
  <2>6. CASE n = 16
    <3>1. Low(n) = Instr("DJNZ", "", "")
      BY <1>3, <2>6, LowTable
    <3>2. QED BY <2>3, <3>1
  <2>7. CASE n = 24
    <3>1. Low(n) = Instr("JR", "always", "")
      BY <1>3, <2>7, LowTable
    <3>2. QED BY <2>3, <3>1
  <2>8. CASE n \notin {0, 8, 16, 24} /\ n >= 32
    <3>1. Low(n) = Instr("JR", CC(Row(n) - 4), "")
      BY <1>3, <2>8, LowTable
    <3>2. QED BY <2>3, <3>1
  <2>9. QED BY <2>1, <2>4, <2>5, <2>6, <2>7, <2>8
<1>4. CASE Column(n) # 0
  <2>1. n \notin {0, 8, 16, 24}
    BY <1>4 DEF Column
  <2>2. CASE Column(n) = 1
    <3>1. Fits(Instr("LD_RX_w", Pair(n), ""))
      BY <1>1, LoadsFit
    <3>2. Fits(Instr("ADD_RX_RX", "HL", Pair(n)))
      BY <1>1, OthersFit DEF Wides, Wide4
    <3>3. Low(n) \in {Instr("LD_RX_w", Pair(n), ""), Instr("ADD_RX_RX", "HL", Pair(n))}
      BY <2>1, <2>2, LowTable
    <3>4. QED BY <3>1, <3>2, <3>3
  <2>3. CASE Column(n) = 2
    <3>1. ASSUME NEW ptr \in Pointers
          PROVE  Fits(Instr("LD_ATRX_R", ptr, "A")) /\ Fits(Instr("LD_R_ATRX", "A", ptr))
      BY LoadsFit DEF Reg8
    <3>2. /\ Fits(Instr("LD_ATw_RX", "", "HL")) /\ Fits(Instr("LD_RX_ATw", "HL", ""))
          /\ Fits(Instr("LD_ATw_R", "", "A")) /\ Fits(Instr("LD_R_ATw", "A", ""))
      BY LoadsFit DEF Wide4
    <3>3. CASE Row(n) = 0
      <4>1. Low(n) = Instr("LD_ATRX_R", "(BC)", "A")
        BY <2>1, <2>3, <3>3, LowTable
      <4>2. QED BY <3>1, <4>1 DEF Pointers
    <3>4. CASE Row(n) = 1
      <4>1. Low(n) = Instr("LD_R_ATRX", "A", "(BC)")
        BY <2>1, <2>3, <3>4, LowTable
      <4>2. QED BY <3>1, <4>1 DEF Pointers
    <3>5. CASE Row(n) = 2
      <4>1. Low(n) = Instr("LD_ATRX_R", "(DE)", "A")
        BY <2>1, <2>3, <3>5, LowTable
      <4>2. QED BY <3>1, <4>1 DEF Pointers
    <3>6. CASE Row(n) = 3
      <4>1. Low(n) = Instr("LD_R_ATRX", "A", "(DE)")
        BY <2>1, <2>3, <3>6, LowTable
      <4>2. QED BY <3>1, <4>1 DEF Pointers
    <3>7. CASE Row(n) = 4
      <4>1. Low(n) = Instr("LD_ATw_RX", "", "HL")
        BY <2>1, <2>3, <3>7, LowTable
      <4>2. QED BY <3>2, <4>1
    <3>8. CASE Row(n) = 5
      <4>1. Low(n) = Instr("LD_RX_ATw", "HL", "")
        BY <2>1, <2>3, <3>8, LowTable
      <4>2. QED BY <3>2, <4>1
    <3>9. CASE Row(n) = 6
      <4>1. Low(n) = Instr("LD_ATw_R", "", "A")
        BY <2>1, <2>3, <3>9, LowTable
      <4>2. QED BY <3>2, <4>1
    <3>10. CASE Row(n) = 7
      <4>1. Low(n) = Instr("LD_R_ATw", "A", "")
        BY <2>1, <2>3, <3>10, LowTable
      <4>2. QED BY <3>2, <4>1
    <3>11. QED BY <1>1, <3>3, <3>4, <3>5, <3>6, <3>7, <3>8, <3>9, <3>10
  <2>4. CASE Column(n) = 3
    <3>1. Fits(Instr("INC_RX", Pair(n), "")) /\ Fits(Instr("DEC_RX", Pair(n), ""))
      BY <1>1, OthersFit DEF Wides
    <3>2. Low(n) = Instr(IF first THEN "INC_RX" ELSE "DEC_RX", Pair(n), "")
      BY <2>1, <2>4, LowTable
    <3>3. QED BY <3>1, <3>2
  <2>5. CASE Column(n) = 4
    <3>1. Fits(Instr("INC", R8(Row(n)), ""))
      BY <1>1, OthersFit DEF Changes
    <3>2. Low(n) = Instr("INC", R8(Row(n)), "")
      BY <2>1, <2>5, LowTable
    <3>3. QED BY <3>1, <3>2
  <2>9. CASE Column(n) = 5
    <3>1. Fits(Instr("DEC", R8(Row(n)), ""))
      BY <1>1, OthersFit DEF Changes
    <3>2. Low(n) = Instr("DEC", R8(Row(n)), "")
      BY <2>1, <2>9, LowTable
    <3>3. QED BY <3>1, <3>2
  <2>6. CASE Column(n) = 6
    <3>1. n # 54 => Row(n) # 6
      BY <2>6 DEF Row, Column
    <3>2. n # 54 => Fits(Instr("LD_R_b", R8(Row(n)), ""))
      BY <1>1, <3>1, LoadsFit
    <3>3. Fits(Instr("LD_ATRX_b", R8(Row(n)), ""))
      BY LoadsFit
    <3>4. Low(n) = Instr(IF n = 54 THEN "LD_ATRX_b" ELSE "LD_R_b", R8(Row(n)), "")
      BY <2>1, <2>6, LowTable
    <3>5. QED BY <3>2, <3>3, <3>4
  <2>7. CASE Column(n) = 7
    <3>1. OnA[Row(n) + 1] \in Free
      BY <1>1, OperandTables DEF Free
    <3>2. Low(n) = Instr(OnA[Row(n) + 1], "", "")
      BY <2>1, <2>7, LowTable
    <3>3. QED BY <3>1, <3>2, FreeFits
  <2>10. QED BY <1>1, <1>4, <2>2, <2>3, <2>4, <2>5, <2>6, <2>7, <2>9
<1>5. QED BY <1>3, <1>4

LEMMA MovesFit == ASSUME NEW n \in 64..127 PROVE Fits(Moves(n))
<1>1. Row(n) = 6 /\ Column(n) = 6 => n = 118
  BY DEF Row, Column
<1>2. /\ R8(Row(n)) \in Reg8 \/ Row(n) = 6
      /\ R8(Column(n)) \in Reg8 \/ Column(n) = 6
  <2>1. n \in 0..255
    OBVIOUS
  <2>2. QED BY <2>1, Digits
<1>3. CASE n = 118
  <2>1. Fits(Instr("HALT", "", ""))
    BY FreeFits DEF Free, Controls
  <2>2. QED BY <1>3, <2>1 DEF Moves
<1>4. CASE n # 118 /\ Column(n) = 6
  <2>1. Moves(n) = Instr("LD_R_ATRX", R8(Row(n)), "(HL)")
    BY <1>1, <1>4 DEF Moves
  <2>2. QED BY <1>1, <1>2, <1>4, <2>1, LoadsFit DEF Pointers
<1>5. CASE n # 118 /\ Column(n) # 6 /\ Row(n) = 6
  <2>1. Moves(n) = Instr("LD_ATRX_R", "(HL)", R8(Column(n)))
    BY <1>5 DEF Moves
  <2>2. QED BY <1>2, <1>5, <2>1, LoadsFit DEF Pointers
<1>6. CASE n # 118 /\ Column(n) # 6 /\ Row(n) # 6
  <2>1. Moves(n) = Instr("LD_R_R", R8(Row(n)), R8(Column(n)))
    BY <1>6 DEF Moves
  <2>2. QED BY <1>2, <1>6, <2>1, LoadsFit
<1>7. QED BY <1>3, <1>4, <1>5, <1>6

LEMMA OperateFits == ASSUME NEW n \in 128..191 PROVE Fits(Operate(n))
<1>1. Arithmetic[Row(n) + 1] \in Operations /\ R8(Column(n)) \in Reg8 \cup {"(HL)"}
  BY Digits, OperandTables
<1>2. QED BY <1>1, OthersFit DEF Operate

\* Not one of the opcodes of C0 to FF that the table names one by one.
Plain(n) ==
  /\ n # 195 /\ n # 201 /\ n # 203 /\ n # 205
  /\ n # 211 /\ n # 217 /\ n # 219 /\ n # 221
  /\ n # 227 /\ n # 233 /\ n # 235 /\ n # 237
  /\ n # 243 /\ n # 249 /\ n # 251 /\ n # 253

LEMMA SinglesAreOdd ==
  ASSUME NEW n \in 192..255
  PROVE  /\ Column(n) \in {0, 2, 4, 6, 7} => Plain(n)
         /\ Column(n) \in {1, 3, 5} /\ Plain(n) => Row(n) % 2 = 0 /\ Column(n) # 3
         /\ Column(n) = 1 /\ ~Plain(n) => n \in {201, 217, 233, 249}
         /\ Column(n) = 3 => n \in {195, 203, 211, 219, 227, 235, 243, 251}
         /\ Column(n) = 5 /\ ~Plain(n) => n \in {205, 221, 237, 253}
BY DEF Plain, Column, Row

LEMMA ReturnsAreRet ==
  ASSUME NEW n \in 192..255, Column(n) = 0 \/ n = 201
  PROVE  High(n).op = "RET"
<1>1. CASE n = 201
  <2>1. High(n) = Instr("RET", "always", "")
    BY <1>1 DEF High, Column, Row
  <2>2. Instr("RET", "always", "").op = "RET"
    BY DEF Instr
  <2>3. QED BY <2>1, <2>2
<1>2. CASE Column(n) = 0
  <2>1. Plain(n)
    BY <1>2, SinglesAreOdd
  <2>2. High(n) = Instr("RET", CC(Row(n)), "")
    BY <1>2, <2>1 DEF High, Plain
  <2>3. Instr("RET", CC(Row(n)), "").op = "RET"
    BY DEF Instr
  <2>4. QED BY <2>2, <2>3
<1>3. QED BY <1>1, <1>2

\* Without the prefixes and the opcodes of the other tables.
LEMMA HighFits ==
  ASSUME NEW n \in 192..255, n \notin {203, 221, 237, 253}
  PROVE  Fits(High(n))
<1>1. /\ Row(n) \in 0..7 /\ Column(n) \in {0, 1, 2, 3, 4, 5, 6, 7} /\ Pair(n) \in Wide4
      /\ R8(Column(n)) \in Reg8 \cup {"(HL)"}
  <2>1. n \in 0..255
    OBVIOUS
  <2>2. QED BY <2>1, Digits
<1>2. \A op \in {"RET", "EXX", "JP_ATRX", "JP", "OUT_ATb_R", "IN_R_ATb", "EX_ATRX_RX",
                 "EX_RX_RX", "DI", "EI", "CALL"} : op \in Free
  BY DEF Free, Returns, Exchanges, Jumps, Controls
<1>3. ASSUME Column(n) \in {0, 2, 4, 6, 7} PROVE Fits(High(n))
  <2>1. Plain(n)
    BY <1>3, SinglesAreOdd
  <2>2. CASE Column(n) = 0
    <3>1. High(n) = Instr("RET", CC(Row(n)), "")
      BY <2>1, <2>2 DEF High, Plain
    <3>2. Fits(Instr("RET", CC(Row(n)), ""))
      BY <1>2, FreeFits
    <3>3. QED BY <3>1, <3>2
  <2>3. CASE Column(n) = 2
    <3>1. High(n) = Instr("JP", CC(Row(n)), "")
      BY <2>1, <2>3 DEF High, Plain
    <3>2. Fits(Instr("JP", CC(Row(n)), ""))
      BY <1>2, FreeFits
    <3>3. QED BY <3>1, <3>2
  <2>4. CASE Column(n) = 4
    <3>1. High(n) = Instr("CALL", CC(Row(n)), "")
      BY <2>1, <2>4 DEF High, Plain
    <3>2. Fits(Instr("CALL", CC(Row(n)), ""))
      BY <1>2, FreeFits
    <3>3. QED BY <3>1, <3>2
  <2>5. CASE Column(n) = 6
    <3>1. High(n) = Instr(Arithmetic[Row(n) + 1], "n", "")
      BY <2>1, <2>5 DEF High, Plain
    <3>2. PICK op \in Operations : op = Arithmetic[Row(n) + 1]
      BY <1>1, OperandTables
    <3>3. Fits(Instr(op, "n", ""))
      BY OthersFit
    <3>4. QED BY <3>1, <3>2, <3>3
  <2>6. CASE Column(n) = 7
    <3>1. High(n) = Instr("RST", 8 * Row(n), "")
      BY <2>1, <2>6 DEF High, Plain
    <3>2. 8 * Row(n) \in Int
      BY <1>1
    <3>3. Fits(Instr("RST", 8 * Row(n), ""))
      BY <3>2, OthersFit
    <3>4. QED BY <3>1, <3>3
  <2>7. QED BY <1>3, <2>2, <2>3, <2>4, <2>5, <2>6
<1>4. ASSUME ~Plain(n) PROVE Fits(High(n))
  <2>1. n \in {195, 201, 205, 211, 217, 219, 227, 233, 235, 243, 249, 251}
    BY <1>4 DEF Plain
  <2>2. CASE n = 195
    <3>1. High(n) = Instr("JP", "always", "")
      BY <2>2 DEF High, Column, Row
    <3>2. Fits(Instr("JP", "always", ""))
      BY <1>2, FreeFits
    <3>3. QED BY <3>1, <3>2
  <2>3. CASE n = 201
    <3>1. High(n) = Instr("RET", "always", "")
      BY <2>3 DEF High, Column, Row
    <3>2. Fits(Instr("RET", "always", ""))
      BY <1>2, FreeFits
    <3>3. QED BY <3>1, <3>2
  <2>4. CASE n = 205
    <3>1. High(n) = Instr("CALL", "always", "")
      BY <2>4 DEF High, Column, Row
    <3>2. Fits(Instr("CALL", "always", ""))
      BY <1>2, FreeFits
    <3>3. QED BY <3>1, <3>2
  <2>5. CASE n = 211
    <3>1. High(n) = Instr("OUT_ATb_R", "", "A")
      BY <2>5 DEF High, Column, Row
    <3>2. Fits(Instr("OUT_ATb_R", "", "A"))
      BY <1>2, FreeFits
    <3>3. QED BY <3>1, <3>2
  <2>6. CASE n = 217
    <3>1. High(n) = Instr("EXX", "", "")
      BY <2>6 DEF High, Column, Row
    <3>2. Fits(Instr("EXX", "", ""))
      BY <1>2, FreeFits
    <3>3. QED BY <3>1, <3>2
  <2>7. CASE n = 219
    <3>1. High(n) = Instr("IN_R_ATb", "A", "")
      BY <2>7 DEF High, Column, Row
    <3>2. Fits(Instr("IN_R_ATb", "A", ""))
      BY <1>2, FreeFits
    <3>3. QED BY <3>1, <3>2
  <2>8. CASE n = 227
    <3>1. High(n) = Instr("EX_ATRX_RX", "", "")
      BY <2>8 DEF High, Column, Row
    <3>2. Fits(Instr("EX_ATRX_RX", "", ""))
      BY <1>2, FreeFits
    <3>3. QED BY <3>1, <3>2
  <2>9. CASE n = 233
    <3>1. High(n) = Instr("JP_ATRX", "", "")
      BY <2>9 DEF High, Column, Row
    <3>2. Fits(Instr("JP_ATRX", "", ""))
      BY <1>2, FreeFits
    <3>3. QED BY <3>1, <3>2
  <2>10. CASE n = 235
    <3>1. High(n) = Instr("EX_RX_RX", "", "")
      BY <2>10 DEF High, Column, Row
    <3>2. Fits(Instr("EX_RX_RX", "", ""))
      BY <1>2, FreeFits
    <3>3. QED BY <3>1, <3>2
  <2>11. CASE n = 243
    <3>1. High(n) = Instr("DI", "", "")
      BY <2>11 DEF High, Column, Row
    <3>2. Fits(Instr("DI", "", ""))
      BY <1>2, FreeFits
    <3>3. QED BY <3>1, <3>2
  <2>12. CASE n = 249
    <3>1. High(n) = Instr("LD_RX_RX", "SP", "HL")
      BY <2>12 DEF High, Column, Row
    <3>2. QED BY <3>1, LoadsFit DEF Wide4
  <2>13. CASE n = 251
    <3>1. High(n) = Instr("EI", "", "")
      BY <2>13 DEF High, Column, Row
    <3>2. Fits(Instr("EI", "", ""))
      BY <1>2, FreeFits
    <3>3. QED BY <3>1, <3>2
  <2>14. QED BY <2>1, <2>2, <2>3, <2>4, <2>5, <2>6, <2>7, <2>8, <2>9,
             <2>10, <2>11, <2>12, <2>13
<1>5. ASSUME Column(n) \in {1, 3, 5}, Plain(n) PROVE Fits(High(n))
  <2>1. Row(n) % 2 = 0 /\ Column(n) # 3
    BY <1>5, SinglesAreOdd
  <2>2. Row(n) % 2 = 0 /\ Row(n) \in Int
    BY <1>1, <2>1
  <2>3. Plain(n)
    BY <1>5
  <2>4. CASE Column(n) = 1 /\ n = 241
    <3>1. High(n) = Instr("POP_RX", "AF", "")
      BY <2>3, <2>2, <2>4 DEF High, Plain
    <3>2. Fits(Instr("POP_RX", "AF", ""))
      <4>1. "AF" \in Wide4 \cup {"AF"}
        OBVIOUS
      <4>2. QED BY <4>1, StackFits
    <3>3. QED BY <3>1, <3>2
  <2>5. CASE Column(n) = 1 /\ n # 241
    <3>1. High(n) = Instr("POP_RX", Pair(n), "")
      BY <2>3, <2>2, <2>5 DEF High, Plain
    <3>2. Fits(Instr("POP_RX", Pair(n), ""))
      <4>1. Pair(n) \in Wide4 \cup {"AF"}
        BY <1>1
      <4>2. QED BY <4>1, StackFits
    <3>3. QED BY <3>1, <3>2
  <2>6. CASE Column(n) = 5 /\ n = 245
    <3>1. High(n) = Instr("PUSH_RX", "AF", "")
      BY <2>3, <2>2, <2>6 DEF High, Plain
    <3>2. Fits(Instr("PUSH_RX", "AF", ""))
      <4>1. "AF" \in Wide4 \cup {"AF"}
        OBVIOUS
      <4>2. QED BY <4>1, StackFits
    <3>3. QED BY <3>1, <3>2
  <2>7. CASE Column(n) = 5 /\ n # 245
    <3>1. High(n) = Instr("PUSH_RX", Pair(n), "")
      BY <2>3, <2>2, <2>7 DEF High, Plain
    <3>2. Fits(Instr("PUSH_RX", Pair(n), ""))
      <4>1. Pair(n) \in Wide4 \cup {"AF"}
        BY <1>1
      <4>2. QED BY <4>1, StackFits
    <3>3. QED BY <3>1, <3>2
  <2>8. QED BY <1>5, <2>1, <2>4, <2>5, <2>6, <2>7
<1>6. QED BY <1>1, <1>3, <1>4, <1>5

LEMMA BytesFit == ASSUME NEW n \in 0..255 PROVE Fits(sInstrCB(n))
<1>1. /\ Row(n) \in {0, 1, 2, 3, 4, 5, 6, 7} /\ Row(n) \in 0..7
      /\ R8(Column(n)) \in Reg8 \cup {"(HL)"}
  BY Digits
<1>2. CASE n < 64
  <2>1. <<"RLC", "RRC", "RL", "RR", "SLA", "SRA", "SLL", "SRL">>[Row(n) + 1] \in Changes
    BY <1>1 DEF Changes, OnBytes, Bits
  <2>2. QED BY <1>1, <1>2, <2>1, OthersFit DEF sInstrCB, Rotation
<1>3. CASE n >= 64
  <2>1. n \div 64 \in {1, 2, 3}
    BY <1>3
  <2>2. PICK op \in Bits : op = <<"BIT", "RES", "SET">>[n \div 64]
    BY <2>1 DEF Bits
  <2>3. sInstrCB(n) = Instr(op, Row(n), R8(Column(n)))
    BY <1>3, <2>2 DEF sInstrCB, OnBit
  <2>4. QED BY <1>1, <2>3, OthersFit
<1>4. QED BY <1>2, <1>3

\* Not one of the opcodes of ED 40 to ED 7F that the table names one by one.
PlainED(n) ==
  /\ n # 68 /\ n # 69 /\ n # 77 /\ n \notin {70, 86, 94}
  /\ n # 71 /\ n # 79 /\ n # 87 /\ n # 95 /\ n # 103 /\ n # 111

LEMMA PlainIsLeft ==
  ASSUME NEW n \in 64..127
  PROVE  Column(n) \in {0, 1, 2, 3} => PlainED(n)
BY DEF PlainED, Column

LEMMA UndefinedFits == Fits(Undefined)
BY FreeFits DEF Undefined, Free, Controls

LEMMA ExtendedFits == ASSUME NEW n \in 64..127 PROVE Fits(Extended(n))
<1>1. /\ Row(n) \in 0..7 /\ Column(n) \in {0, 1, 2, 3, 4, 5, 6, 7} /\ Pair(n) \in Wide4
      /\ Row(n) # 6 => R8(Row(n)) \in Reg8
  <2>1. n \in 0..255
    OBVIOUS
  <2>2. QED BY <2>1, Digits
<1>2. Row(n) \in Int
  BY <1>1
<1>3. \A op \in {"OUT_ATR_R", "NEG", "RETN", "RETI", "RRD", "RLD"} : op \in Free
  BY DEF Free, Generals, Returns
<1>4. ASSUME Column(n) \in {0, 1, 2, 3} PROVE Fits(Extended(n))
  <2>1. PlainED(n)
    BY <1>4, PlainIsLeft
  <2>2. CASE Column(n) = 0 /\ Row(n) # 6
    <3>1. Extended(n) = Instr("IN_R_ATR", R8(Row(n)), "C")
      BY <2>1, <2>2 DEF Extended, PlainED
    <3>2. R8(Row(n)) \in Reg8
      BY <1>1, <2>2
    <3>3. Fits(Instr("IN_R_ATR", R8(Row(n)), "C"))
      BY <3>2, OthersFit
    <3>4. QED BY <3>1, <3>3
  <2>3. CASE Column(n) = 1 /\ Row(n) # 6
    <3>1. Extended(n) = Instr("OUT_ATR_R", "C", R8(Row(n)))
      BY <2>1, <2>3 DEF Extended, PlainED
    <3>2. Fits(Instr("OUT_ATR_R", "C", R8(Row(n))))
      BY <1>3, FreeFits
    <3>3. QED BY <3>1, <3>2
  <2>4. CASE Column(n) \in {0, 1} /\ Row(n) = 6
    <3>1. n \in {112, 113}
      BY <2>4 DEF Column, Row
    <3>2. CASE n = 112
      <4>1. Extended(n) = Undefined
        BY <3>2 DEF Extended, Column, Row
      <4>2. QED BY <4>1, UndefinedFits
    <3>3. CASE n = 113
      <4>1. Extended(n) = Undefined
        BY <3>3 DEF Extended, Column, Row
      <4>2. QED BY <4>1, UndefinedFits
    <3>4. QED BY <3>1, <3>2, <3>3
  <2>5. CASE Column(n) = 2
    <3>1. Fits(Instr("ADC_RX_RX", "HL", Pair(n))) /\ Fits(Instr("SBC_RX_RX", "HL", Pair(n)))
      BY <1>1, OthersFit DEF Wides, Wide4
    <3>2. Extended(n) = Instr(IF Row(n) % 2 = 1 THEN "ADC_RX_RX" ELSE "SBC_RX_RX", "HL", Pair(n))
      BY <1>2, <2>1, <2>5 DEF Extended, PlainED
    <3>3. QED BY <3>1, <3>2
  <2>6. CASE Column(n) = 3 /\ Pair(n) # "HL"
    <3>1. Fits(Instr("LD_RX_ATw", Pair(n), "")) /\ Fits(Instr("LD_ATw_RX", "", Pair(n)))
      BY <1>1, LoadsFit
    <3>2. Extended(n) = IF Row(n) % 2 = 1 THEN Instr("LD_RX_ATw", Pair(n), "")
                        ELSE Instr("LD_ATw_RX", "", Pair(n))
      BY <1>2, <2>1, <2>6 DEF Extended, PlainED
    <3>3. QED BY <3>1, <3>2
  <2>7. CASE Column(n) = 3 /\ Pair(n) = "HL"
    <3>1. Extended(n) = Undefined
      BY <2>1, <2>7 DEF Extended, PlainED
    <3>2. QED BY <3>1, UndefinedFits
  <2>8. QED BY <1>4, <2>2, <2>3, <2>4, <2>5, <2>6, <2>7
<1>5. ASSUME ~PlainED(n) PROVE Fits(Extended(n))
  <2>1. n \in {68, 69, 70, 71, 77, 79, 86, 87, 94, 95, 103, 111}
    BY <1>5 DEF PlainED
  <2>2. CASE n = 68
    <3>1. Extended(n) = Instr("NEG", "", "")
      BY <2>2 DEF Extended, Column, Row
    <3>2. Fits(Instr("NEG", "", ""))
      BY <1>3, FreeFits
    <3>3. QED BY <3>1, <3>2
  <2>3. CASE n = 69
    <3>1. Extended(n) = Instr("RETN", "", "")
      BY <2>3 DEF Extended, Column, Row
    <3>2. Fits(Instr("RETN", "", ""))
      BY <1>3, FreeFits
    <3>3. QED BY <3>1, <3>2
  <2>4. CASE n = 77
    <3>1. Extended(n) = Instr("RETI", "", "")
      BY <2>4 DEF Extended, Column, Row
    <3>2. Fits(Instr("RETI", "", ""))
      BY <1>3, FreeFits
    <3>3. QED BY <3>1, <3>2
  <2>5. CASE n = 70
    <3>1. Extended(n) = Instr("IM", 0, "")
      BY <2>5 DEF Extended, Column, Row
    <3>2. Fits(Instr("IM", 0, ""))
      BY OthersFit
    <3>3. QED BY <3>1, <3>2
  <2>6. CASE n = 86
    <3>1. Extended(n) = Instr("IM", 1, "")
      BY <2>6 DEF Extended, Column, Row
    <3>2. Fits(Instr("IM", 1, ""))
      BY OthersFit
    <3>3. QED BY <3>1, <3>2
  <2>7. CASE n = 94
    <3>1. Extended(n) = Instr("IM", 2, "")
      BY <2>7 DEF Extended, Column, Row
    <3>2. Fits(Instr("IM", 2, ""))
      BY OthersFit
    <3>3. QED BY <3>1, <3>2
  <2>8. CASE n = 71
    <3>1. Extended(n) = Instr("LD_R_R", "I", "A")
      BY <2>8 DEF Extended, Column, Row
    <3>2. Fits(Instr("LD_R_R", "I", "A"))
      BY LoadsFit DEF Reg8
    <3>3. QED BY <3>1, <3>2
  <2>9. CASE n = 79
    <3>1. Extended(n) = Instr("LD_R_R", "R", "A")
      BY <2>9 DEF Extended, Column, Row
    <3>2. Fits(Instr("LD_R_R", "R", "A"))
      BY LoadsFit DEF Reg8
    <3>3. QED BY <3>1, <3>2
  <2>10. CASE n = 87
    <3>1. Extended(n) = Instr("LDS_A_R", "A", "I")
      BY <2>10 DEF Extended, Column, Row
    <3>2. Fits(Instr("LDS_A_R", "A", "I"))
      BY LoadsFit DEF Reg8
    <3>3. QED BY <3>1, <3>2
  <2>11. CASE n = 95
    <3>1. Extended(n) = Instr("LDS_A_R", "A", "R")
      BY <2>11 DEF Extended, Column, Row
    <3>2. Fits(Instr("LDS_A_R", "A", "R"))
      BY LoadsFit DEF Reg8
    <3>3. QED BY <3>1, <3>2
  <2>12. CASE n = 103
    <3>1. Extended(n) = Instr("RRD", "", "")
      BY <2>12 DEF Extended, Column, Row
    <3>2. Fits(Instr("RRD", "", ""))
      BY <1>3, FreeFits
    <3>3. QED BY <3>1, <3>2
  <2>13. CASE n = 111
    <3>1. Extended(n) = Instr("RLD", "", "")
      BY <2>13 DEF Extended, Column, Row
    <3>2. Fits(Instr("RLD", "", ""))
      BY <1>3, FreeFits
    <3>3. QED BY <3>1, <3>2
  <2>14. QED BY <2>1, <2>2, <2>3, <2>4, <2>5, <2>6, <2>7, <2>8, <2>9,
             <2>10, <2>11, <2>12, <2>13
<1>6. ASSUME Column(n) \in {4, 5, 6, 7}, PlainED(n) PROVE Fits(Extended(n))
  <2>1. Column(n) # 0 /\ Column(n) # 1 /\ Column(n) # 2 /\ Column(n) # 3
    BY <1>6
  <2>2. Extended(n) = Undefined
    BY <1>6, <2>1 DEF Extended, PlainED
  <2>3. QED BY <2>2, UndefinedFits
<1>7. QED BY <1>1, <1>4, <1>5, <1>6

BlockEntries == {Undefined} \cup {Instr(op, "", "") : op \in Blocks}

LEMMA BlockTable == ASSUME NEW n \in 128..191 PROVE Block(n) \in BlockEntries
<1>1. \A op \in Blocks : Instr(op, "", "") \in BlockEntries
  BY DEF BlockEntries
<1>2. \A op \in {"LDI", "CPI", "INI", "OUTI", "LDD", "CPD", "IND", "OUTD",
                 "LDIR", "CPIR", "INIR", "OTIR", "LDDR", "CPDR"} : op \in Blocks
  BY DEF Blocks, Moving, Comparing, Receiving, Sending
<1>3. CASE n = 160
  <2>1. Block(n) = Instr("LDI", "", "")
    BY <1>3 DEF Block
  <2>2. QED BY <1>1, <1>2, <2>1
<1>4. CASE n = 161
  <2>1. Block(n) = Instr("CPI", "", "")
    BY <1>4 DEF Block
  <2>2. QED BY <1>1, <1>2, <2>1
<1>5. CASE n = 162
  <2>1. Block(n) = Instr("INI", "", "")
    BY <1>5 DEF Block
  <2>2. QED BY <1>1, <1>2, <2>1
<1>6. CASE n = 163
  <2>1. Block(n) = Instr("OUTI", "", "")
    BY <1>6 DEF Block
  <2>2. QED BY <1>1, <1>2, <2>1
<1>7. CASE n = 168
  <2>1. Block(n) = Instr("LDD", "", "")
    BY <1>7 DEF Block
  <2>2. QED BY <1>1, <1>2, <2>1
<1>8. CASE n = 169
  <2>1. Block(n) = Instr("CPD", "", "")
    BY <1>8 DEF Block
  <2>2. QED BY <1>1, <1>2, <2>1
<1>9. CASE n = 170
  <2>1. Block(n) = Instr("IND", "", "")
    BY <1>9 DEF Block
  <2>2. QED BY <1>1, <1>2, <2>1
<1>10. CASE n = 171
  <2>1. Block(n) = Instr("OUTD", "", "")
    BY <1>10 DEF Block
  <2>2. QED BY <1>1, <1>2, <2>1
<1>11. CASE n = 176
  <2>1. Block(n) = Instr("LDIR", "", "")
    BY <1>11 DEF Block
  <2>2. QED BY <1>1, <1>2, <2>1
<1>12. CASE n = 177
  <2>1. Block(n) = Instr("CPIR", "", "")
    BY <1>12 DEF Block
  <2>2. QED BY <1>1, <1>2, <2>1
<1>13. CASE n = 178
  <2>1. Block(n) = Instr("INIR", "", "")
    BY <1>13 DEF Block
  <2>2. QED BY <1>1, <1>2, <2>1
<1>14. CASE n = 179
  <2>1. Block(n) = Instr("OTIR", "", "")
    BY <1>14 DEF Block
  <2>2. QED BY <1>1, <1>2, <2>1
<1>15. CASE n = 184
  <2>1. Block(n) = Instr("LDDR", "", "")
    BY <1>15 DEF Block
  <2>2. QED BY <1>1, <1>2, <2>1
<1>16. CASE n = 185
  <2>1. Block(n) = Instr("CPDR", "", "")
    BY <1>16 DEF Block
  <2>2. QED BY <1>1, <1>2, <2>1
<1>17. CASE n \notin 160..163 /\ n \notin 168..171 /\ n \notin 176..179 /\ n \notin 184..185
  BY <1>17 DEF Block, BlockEntries
<1>18. QED BY <1>3, <1>4, <1>5, <1>6, <1>7, <1>8, <1>9, <1>10,
            <1>11, <1>12, <1>13, <1>14, <1>15, <1>16, <1>17

LEMMA BlockFits == ASSUME NEW n \in 128..191 PROVE Fits(Block(n))
<1>1. \A op \in Blocks : Fits(Instr(op, "", ""))
  BY FreeFits DEF Free
<1>2. QED BY <1>1, BlockTable, UndefinedFits DEF BlockEntries

\* The whole tables, but for the opcodes that lead to another.
LEMMA MainFits ==
  ASSUME NEW n \in Byte
  PROVE  /\ n \notin {203, 221, 237, 253} => Fits(sInstr(n))
         /\ n = 203 => sInstr(n).op = "CB"
         /\ n = 237 => sInstr(n).op = "ED"
         /\ n = 201 \/ (n >= 192 /\ n % 8 = 0) => sInstr(n).op = "RET"
<1>1. n \in 0..255
  BY DEF Byte
<1>2. n \notin {203, 221, 237, 253} => Fits(sInstr(n))
  <2>1. ASSUME n < 64 PROVE Fits(sInstr(n))
    BY <1>1, <2>1, LowFits DEF sInstr
  <2>2. ASSUME n >= 64 /\ n < 128 PROVE Fits(sInstr(n))
    BY <1>1, <2>2, MovesFit DEF sInstr
  <2>3. ASSUME n >= 128 /\ n < 192 PROVE Fits(sInstr(n))
    BY <1>1, <2>3, OperateFits DEF sInstr
  <2>4. ASSUME n >= 192, n \notin {203, 221, 237, 253} PROVE Fits(sInstr(n))
    BY <1>1, <2>4, HighFits DEF sInstr
  <2>5. QED BY <1>1, <2>1, <2>2, <2>3, <2>4
<1>3. n >= 192 => sInstr(n) = High(n)
  BY <1>1 DEF sInstr
<1>4. ASSUME n = 203 PROVE sInstr(n).op = "CB"
  <2>1. High(n) = Instr("CB", "", "")
    BY <1>4 DEF High, Column, Row
  <2>2. Instr("CB", "", "").op = "CB"
    BY DEF Instr
  <2>3. n >= 192
    BY <1>4
  <2>4. sInstr(n) = High(n)
    BY <1>3, <2>3
  <2>5. QED BY <2>1, <2>2, <2>4
<1>5. ASSUME n = 237 PROVE sInstr(n).op = "ED"
  <2>1. High(n) = Instr("ED", "", "")
    BY <1>5 DEF High, Column, Row
  <2>2. Instr("ED", "", "").op = "ED"
    BY DEF Instr
  <2>3. n >= 192
    BY <1>5
  <2>4. sInstr(n) = High(n)
    BY <1>3, <2>3
  <2>5. QED BY <2>1, <2>2, <2>4
<1>6. n = 201 \/ (n >= 192 /\ n % 8 = 0) => sInstr(n).op = "RET"
  BY <1>1, <1>3, ReturnsAreRet DEF Column
<1>7. QED BY <1>2, <1>4, <1>5, <1>6

LEMMA EDFits == ASSUME NEW n \in Byte PROVE Fits(sInstrED(n))
<1>1. n \in 0..255
  BY DEF Byte
<1>2. CASE n >= 64 /\ n < 128
  <2>1. ~(n >= 128 /\ n < 192) /\ ~(n \in (32..63) \cup (240..255))
    BY <1>1, <1>2
  <2>2. sInstrED(n) = Extended(n)
    BY <1>2, <2>1 DEF sInstrED
  <2>3. QED BY <1>1, <1>2, <2>2, ExtendedFits
<1>3. CASE n >= 128 /\ n < 192
  <2>1. ~(n >= 64 /\ n < 128) /\ ~(n \in (32..63) \cup (240..255))
    BY <1>1, <1>3
  <2>2. sInstrED(n) = Block(n)
    BY <1>3, <2>1 DEF sInstrED
  <2>3. QED BY <1>1, <1>3, <2>2, BlockFits
<1>4. CASE n \in (32..63) \cup (240..255)
  <2>1. ~(n >= 64 /\ n < 128) /\ ~(n >= 128 /\ n < 192)
    BY <1>1, <1>4
  <2>2. sInstrED(n) = Instr("Z80EXT", "", "")
    BY <1>4, <2>1 DEF sInstrED
  <2>3. QED BY <2>2, FreeFits DEF Free, Controls
<1>5. CASE ~(n >= 64 /\ n < 128) /\ ~(n >= 128 /\ n < 192) /\ ~(n \in (32..63) \cup (240..255))
  <2>1. sInstrED(n) = Undefined
    BY <1>5 DEF sInstrED
  <2>2. QED BY <2>1, UndefinedFits
<1>6. QED BY <1>2, <1>3, <1>4, <1>5

-------------------------------------------------------------------------------
(* What an instruction is decoded to. *)

Pairs == {"HL", "IX", "IY"}

WellDecoded(d) ==
  Fits(d.ins) /\ d.named \in Pairs /\ d.pointed \in Pairs /\ d.disp \in Int /\ d.next \in Int

LEMMA PrefixesAreFound ==
  ASSUME NEW mem, NEW pc, FewPrefixes(mem, pc)
  PROVE  Prefixes(mem, pc) \in 0..MaxPrefixes /\ Prefixed(mem, pc, Prefixes(mem, pc))
BY DEF FewPrefixes, Prefixes

LEMMA DecodeFits ==
  ASSUME NEW z, IsProcessor(z), FewPrefixes(z.mem, z.pc)
  PROVE  WellDecoded(Decode(z.mem, z.pc))
<1> DEFINE mem == z.mem
           n == Prefixes(mem, z.pc)
           at == z.pc + n
           named == IF n = 0 THEN "HL"
                    ELSE IF \E j \in 0..(n - 1) : read(mem, z.pc + j) = 221 THEN "IX" ELSE "IY"
           pointed == IF n = 0 THEN "HL" ELSE IF read(mem, at - 1) = 221 THEN "IX" ELSE "IY"
           D(ins, disp, next) == [ins |-> ins, disp |-> disp, next |-> next % 65536,
                                  named |-> named, pointed |-> pointed]
           main == sInstr(read(mem, at))
<1>1. n \in Int /\ at \in Int /\ read(mem, at) \notin {221, 253}
  <2>1. n \in 0..MaxPrefixes /\ Prefixed(mem, z.pc, n)
    BY PrefixesAreFound
  <2>2. z.pc \in Int
    BY BytesAreNumbers DEF IsProcessor
  <2>3. QED BY <2>1, <2>2, PrefixAssumption DEF Prefixed
<1>2. named \in Pairs /\ pointed \in Pairs
  BY DEF Pairs
<1>3. \A a : read(mem, a) \in Byte
  BY MemoryIsBytes
<1>4. \A a : Signed(read(mem, a)) \in Int
  BY <1>3 DEF Signed, Byte
<1> HIDE DEF mem, n, at, named, pointed
<1>5. ASSUME NEW ins, Fits(ins), NEW disp \in Int, NEW next \in Int
      PROVE  WellDecoded(D(ins, disp, next))
  BY <1>2, <1>5 DEF WellDecoded
<1> HIDE DEF D, main
<1>6. Decode(mem, z.pc) =
        CASE main.op = "CB" /\ named = "HL" -> D(sInstrCB(read(mem, at + 1)), 0, at + 2)
          [] main.op = "CB" /\ named # "HL" ->
               D(sInstrCB(read(mem, at + 2)), Signed(read(mem, at + 1)), at + 3)
          [] main.op = "ED" -> D(sInstrED(read(mem, at + 1)), 0, at + 2)
          [] OTHER -> D(main, 0, at + 1)
  BY DEF Decode, D, main, named, pointed, at, n
<1>7. at + 1 \in Int /\ at + 2 \in Int /\ at + 3 \in Int
  BY <1>1
<1>8. \A a : Fits(sInstrCB(read(mem, a))) /\ Fits(sInstrED(read(mem, a)))
  <2>1. \A b \in Byte : b \in 0..255
    BY DEF Byte
  <2>2. QED BY <1>3, <2>1, BytesFit, EDFits
<1>9. CASE main.op = "CB"
  <2>1. CASE named = "HL"
    <3>1. Decode(mem, z.pc) = D(sInstrCB(read(mem, at + 1)), 0, at + 2)
      BY <1>6, <1>9, <2>1
    <3>2. QED BY <1>5, <1>7, <1>8, <3>1 DEF mem
  <2>2. CASE named # "HL"
    <3>1. Decode(mem, z.pc) = D(sInstrCB(read(mem, at + 2)), Signed(read(mem, at + 1)), at + 3)
      BY <1>6, <1>9, <2>2
    <3>2. QED BY <1>4, <1>5, <1>7, <1>8, <3>1 DEF mem
  <2>3. QED BY <2>1, <2>2
<1>10. CASE main.op = "ED"
  <2>1. Decode(mem, z.pc) = D(sInstrED(read(mem, at + 1)), 0, at + 2)
    BY <1>6, <1>10
  <2>2. QED BY <1>5, <1>7, <1>8, <2>1 DEF mem
<1>11. CASE main.op # "CB" /\ main.op # "ED"
  <2>1. Decode(mem, z.pc) = D(main, 0, at + 1)
    BY <1>6, <1>11
  <2>2. Fits(main)
    <3>1. read(mem, at) \notin {203, 237}
      BY <1>3, <1>11, MainFits DEF main
    <3>2. QED BY <1>1, <1>3, <3>1, MainFits DEF main
  <2>3. QED BY <1>5, <1>7, <2>1, <2>2 DEF mem
<1>12. QED BY <1>9, <1>10, <1>11

\* RET and its conditional forms, without a prefix, are what the debugger takes them for.
LEMMA RetIsDecoded ==
  ASSUME NEW mem, NEW pc \in Int,
         read(mem, pc) \in Byte, read(mem, pc) = 201 \/ (read(mem, pc) >= 192 /\ read(mem, pc) % 8 = 0)
  PROVE  Decode(mem, pc).ins.op = "RET"
<1> DEFINE b == read(mem, pc)
<1>1. b \notin {221, 253} /\ b \in Int
  BY DEF Byte
<1>2. pc + 0 = pc
  OBVIOUS
<1>3. Prefixed(mem, pc, 0)
  BY <1>1, <1>2 DEF Prefixed
<1>4. ASSUME NEW k \in 0..MaxPrefixes, Prefixed(mem, pc, k) PROVE k = 0
  <2>1. SUFFICES ASSUME k # 0 PROVE FALSE
    OBVIOUS
  <2>2. k \in Int /\ 0 \in 0..(k - 1)
    BY <2>1, PrefixAssumption
  <2>3. read(mem, pc + 0) \in {221, 253}
    BY <1>4, <2>2 DEF Prefixed
  <2>4. QED BY <1>1, <1>2, <2>3
<1>5. 0 \in 0..MaxPrefixes
  BY PrefixAssumption
<1>6. Prefixes(mem, pc) = 0
  <2>1. \E k \in 0..MaxPrefixes : Prefixed(mem, pc, k)
    BY <1>3, <1>5
  <2>2. QED BY <1>4, <2>1 DEF Prefixes
<1>7. sInstr(b).op = "RET"
  BY MainFits
<1> HIDE DEF b
<1>8. Decode(mem, pc).ins = sInstr(b)
  BY <1>2, <1>6, <1>7 DEF Decode, b
<1>9. QED BY <1>7, <1>8

-------------------------------------------------------------------------------
(* Every instruction leaves a processor, and goes on as before unless it is HALT. *)

LEMMA NamesOf ==
  ASSUME NEW pair \in Pairs
  PROVE  /\ \A n \in Reg8 \cup {"I"} : In(pair, n) \in RegName
         /\ \A p \in Wide4 : Of(pair, p) \in RegPair \cup {"SP", "AF"} /\ Of(pair, p) # "AF"
         /\ Of(pair, "AF") = "AF" /\ pair \in RegPair /\ pair # "AF"
BY DEF Pairs, Reg8, RegName, Wide4, RegPair, In, Of, Hi, Lo

LEMMA AddressIsInt ==
  ASSUME NEW z, IsProcessor(z), NEW d, WellDecoded(d)
  PROVE  Address(z, d) \in Int /\ Like(After(z, d), z)
<1>1. Pair16(z, d.named) \in Int /\ Signed(Imm8(z)) \in Int /\ d.disp \in Int
  BY PairIsWord, NamesOf, Readings DEF WellDecoded
<1>2. Address(z, d) \in Int
  BY <1>1 DEF Address
<1>3. Like(z, z) /\ Like(Skip(z, 1), z)
  BY LikeItself, SkipKeeps
<1>4. QED BY <1>2, <1>3 DEF After

LEMMA PointedIsInt ==
  ASSUME NEW z, IsProcessor(z), NEW d, WellDecoded(d), NEW x \in Pointers
  PROVE  Pointed(z, d, x) \in Int /\ Like(AfterPointed(z, d), z)
<1>1. Pointer(x) \in Wide4
  BY DEF Pointer, Pointers, Wide4
<1>2. Of(d.pointed, Pointer(x)) \in RegPair \cup {"SP", "AF"}
  BY <1>1, NamesOf DEF WellDecoded
<1>3. Pair16(z, Of(d.pointed, Pointer(x))) \in Int /\ Signed(Imm8(z)) \in Int
  BY <1>2, PairIsWord, Readings
<1>4. Pointed(z, d, x) \in Int
  BY <1>3 DEF Pointed
<1>5. Like(z, z) /\ Like(Skip(z, 1), z)
  BY LikeItself, SkipKeeps
<1>6. QED BY <1>4, <1>5 DEF AfterPointed

LEMMA LoadByteKeeps ==
  ASSUME NEW z, IsProcessor(z), NEW d, WellDecoded(d), d.ins.op \in ByteLoads, NEW any \in Byte
  PROVE  Like(LoadByte(z, d, any), z)
<1> DEFINE x == d.ins.x
           y == d.ins.y
<1>1. LoadFits(d.ins) /\ d.named \in Pairs
  BY DEF WellDecoded, Fits
<1>2. Like(z, z) /\ Like(Skip(z, 1), z) /\ Like(Skip(z, 2), z)
  BY LikeItself, SkipKeeps
<1>3. \A a : read(z.mem, a) \in Byte
  BY MemoryIsBytes
<1>4. Imm8(z) \in Byte /\ Imm16(z) \in Int
  BY Readings, BytesAreNumbers
<1>5. "A" \in RegName /\ Reg8 \subseteq RegName /\ "I" \in RegName
  BY DEF RegName, Reg8
<1>6. CASE d.ins.op = "LD_R_R"
  <2>1. LoadByte(z, d, any) =
          IF x = "R" THEN z ELSE Set8(z, In(d.named, x), z.r[In(d.named, y)])
    BY <1>6 DEF LoadByte
  <2>2. CASE x = "R"
    BY <1>2, <2>1, <2>2
  <2>3. CASE x # "R"
    <3>1. In(d.named, x) \in RegName /\ In(d.named, y) \in RegName
      BY <1>1, <1>6, <2>3, NamesOf DEF LoadFits
    <3>2. Like(Set8(z, In(d.named, x), z.r[In(d.named, y)]), z)
      BY <1>2, <3>1, RegisterIsByte, Set8Keeps
    <3>3. QED BY <2>1, <2>3, <3>2
  <2>4. QED BY <2>2, <2>3
<1>7. CASE d.ins.op = "LDS_A_R"
  <2> DEFINE v == IF d.ins.y = "R" THEN any ELSE z.r["I"]
             f == [s |-> Bit(v, 128), z |-> Yes(v = 0), h |-> 0, p |-> z.iff2, n |-> 0,
                   c |-> z.f.c]
  <2>1. v \in Byte
    BY <1>5, RegisterIsByte
  <2> HIDE DEF v
  <2>2. f \in Flags
    <3>1. Bit(v, 128) \in Flag /\ Yes(v = 0) \in Flag /\ 0 \in Flag
      BY <2>1, BytesAreNumbers, BitIsFlag, YesIsFlag DEF Flag
    <3>2. z.iff2 \in Flag /\ z.f.c \in Flag
      BY DEF IsProcessor, Flags
    <3>3. QED BY <3>1, <3>2 DEF Flags
  <2> HIDE DEF f
  <2>3. Like([Set8(z, "A", v) EXCEPT !.f = f], z)
    BY <1>2, <1>5, <2>1, <2>2, Set8Keeps, FlagsKeep
  <2>4. LoadByte(z, d, any) = [Set8(z, "A", v) EXCEPT !.f = f]
    BY <1>7 DEF LoadByte, LDS_A_R, v, f
  <2>5. QED BY <2>3, <2>4
<1>8. CASE d.ins.op = "LD_R_b"
  <2>1. LoadByte(z, d, any) = Set8(Skip(z, 1), In(d.named, x), Imm8(z))
    BY <1>8 DEF LoadByte
  <2>2. In(d.named, x) \in RegName
    BY <1>1, <1>8, NamesOf DEF LoadFits
  <2>3. QED BY <1>2, <1>4, <2>1, <2>2, Set8Keeps
<1>9. CASE d.ins.op = "LD_R_ATRX"
  <2>1. LoadByte(z, d, any) = Set8(AfterPointed(z, d), x, read(z.mem, Pointed(z, d, y)))
    BY <1>9 DEF LoadByte, LD_R_ATRX
  <2>2. x \in RegName /\ y \in Pointers
    BY <1>1, <1>5, <1>9 DEF LoadFits
  <2>3. Like(AfterPointed(z, d), z)
    BY <2>2, PointedIsInt
  <2>4. QED BY <1>3, <2>1, <2>2, <2>3, Set8Keeps
<1>10. CASE d.ins.op = "LD_ATRX_R"
  <2>1. LoadByte(z, d, any) = Put(AfterPointed(z, d), Pointed(z, d, x), z.r[y])
    BY <1>10 DEF LoadByte, LD_ATRX_R
  <2>2. x \in Pointers /\ y \in RegName
    BY <1>1, <1>5, <1>10 DEF LoadFits
  <2>3. Like(AfterPointed(z, d), z) /\ Pointed(z, d, x) \in Int /\ z.r[y] \in Int
    BY <2>2, PointedIsInt, RegisterIsByte, BytesAreNumbers
  <2>4. QED BY <2>1, <2>3, PutKeeps
<1>11. CASE d.ins.op = "LD_ATRX_b"
  <2> DEFINE w == After(z, d)
  <2>1. Like(w, z) /\ Address(z, d) \in Int
    BY AddressIsInt
  <2>2. Imm8(w) \in Int
    BY <2>1, Readings, BytesAreNumbers DEF Like
  <2> HIDE DEF w
  <2>3. Like(Put(Skip(w, 1), Address(z, d), Imm8(w)), z)
    <3>1. Like(Skip(w, 1), z)
      BY <2>1, SkipKeeps
    <3>2. QED BY <2>1, <2>2, <3>1, PutKeeps
  <2>4. LoadByte(z, d, any) = Put(Skip(w, 1), Address(z, d), Imm8(w))
    BY <1>11 DEF LoadByte, LD_ATRX_b, w
  <2>5. QED BY <2>3, <2>4
<1>12. CASE d.ins.op = "LD_R_ATw"
  <2>1. LoadByte(z, d, any) = Set8(Skip(z, 2), x, read(z.mem, Imm16(z)))
    BY <1>12 DEF LoadByte
  <2>2. x \in RegName
    BY <1>1, <1>5, <1>12 DEF LoadFits
  <2>3. QED BY <1>2, <1>3, <2>1, <2>2, Set8Keeps
<1>13. CASE d.ins.op = "LD_ATw_R"
  <2>1. LoadByte(z, d, any) = Put(Skip(z, 2), Imm16(z), z.r[y])
    BY <1>13 DEF LoadByte
  <2>2. z.r[y] \in Int
    BY <1>1, <1>5, <1>13, RegisterIsByte, BytesAreNumbers DEF LoadFits
  <2>3. QED BY <1>2, <1>4, <2>1, <2>2, PutKeeps
<1>14. QED BY <1>6, <1>7, <1>8, <1>9, <1>10, <1>11, <1>12, <1>13 DEF ByteLoads

LEMMA LoadWordKeeps ==
  ASSUME NEW z, IsProcessor(z), NEW d, WellDecoded(d), d.ins.op \in WordLoads
  PROVE  Like(LoadWord(z, d), z)
<1> DEFINE to == Of(d.named, d.ins.x)
           from == Of(d.named, d.ins.y)
<1>1. LoadFits(d.ins) /\ d.named \in Pairs
  BY DEF WellDecoded, Fits
<1>2. Like(z, z) /\ Like(Skip(z, 2), z) /\ Like(Pop(z), z)
  BY LikeItself, SkipKeeps
<1>3. /\ Imm16(z) \in Word /\ Imm16(z) \in Int /\ Top(z) \in Word /\ Top(z) \in Int
      /\ readWord(z.mem, Imm16(z)) \in Int
  BY Readings, WordsInMemory, BytesAreNumbers
<1>4. /\ d.ins.op \in {"LD_RX_w", "LD_RX_ATw", "LD_RX_RX"} =>
           to \in RegPair \cup {"SP", "AF"} /\ to # "AF"
      /\ d.ins.op \in {"LD_ATw_RX", "LD_RX_RX"} => from \in RegPair \cup {"SP", "AF"}
      /\ d.ins.op \in {"PUSH_RX", "POP_RX"} => to \in RegPair \cup {"SP", "AF"}
  BY <1>1, NamesOf DEF LoadFits
<1> HIDE DEF to, from
<1>5. CASE d.ins.op = "LD_RX_w"
  <2>1. LoadWord(z, d) = Set16(Skip(z, 2), to, Imm16(z))
    BY <1>5 DEF LoadWord, to
  <2>2. QED BY <1>2, <1>3, <1>4, <1>5, <2>1, Set16Keeps
<1>6. CASE d.ins.op = "LD_RX_ATw"
  <2>1. LoadWord(z, d) = Set16(Skip(z, 2), to, readWord(z.mem, Imm16(z)))
    BY <1>6 DEF LoadWord, to
  <2>2. QED BY <1>2, <1>3, <1>4, <1>6, <2>1, Set16Keeps
<1>7. CASE d.ins.op = "LD_ATw_RX"
  <2>1. LoadWord(z, d) = [Skip(z, 2) EXCEPT !.mem = writeWord(@, Imm16(z), Pair16(z, from))]
    BY <1>7 DEF LoadWord, from
  <2>2. Pair16(z, from) \in Word
    BY <1>4, <1>7, PairIsWord
  <2>3. QED BY <1>2, <1>3, <2>1, <2>2, WordKept
<1>8. CASE d.ins.op = "LD_RX_RX"
  <2>1. LoadWord(z, d) = Set16(z, to, Pair16(z, from))
    BY <1>8 DEF LoadWord, to, from
  <2>2. Pair16(z, from) \in Int
    BY <1>4, <1>8, PairIsWord
  <2>3. QED BY <1>2, <1>4, <1>8, <2>1, <2>2, Set16Keeps
<1>9. CASE d.ins.op = "PUSH_RX"
  <2>1. LoadWord(z, d) = Push(z, Pair16(z, to))
    BY <1>9 DEF LoadWord, to
  <2>2. Pair16(z, to) \in Word
    BY <1>4, <1>9, PairIsWord
  <2>3. QED BY <1>2, <2>1, <2>2, PushKeeps
<1>10. CASE d.ins.op = "POP_RX"
  <2>1. LoadWord(z, d) = Set16(Pop(z), to, Top(z))
    BY <1>10 DEF LoadWord, to
  <2>2. QED BY <1>2, <1>3, <1>4, <1>10, <2>1, Set16Keeps
<1>11. QED BY <1>5, <1>6, <1>7, <1>8, <1>9, <1>10 DEF WordLoads

LEMMA AlternatesKeep ==
  ASSUME NEW z, NEW w, Like(w, z), NEW b \in Word, NEW e \in Word, NEW h \in Word
  PROVE  /\ Like([w EXCEPT !.alt.af = b], z)
         /\ Like([w EXCEPT !.alt.bc = b, !.alt.de = e, !.alt.hl = h], z)
BY DEF Like, IsProcessor, Alternates

LEMMA ExchangeKeeps ==
  ASSUME NEW z, IsProcessor(z), NEW d, WellDecoded(d), d.ins.op \in Exchanges
  PROVE  Like(Exchange(z, d), z)
<1>1. d.named \in RegPair \cup {"SP", "AF"} /\ d.named # "AF"
  BY NamesOf DEF WellDecoded
<1>2. Like(z, z)
  BY LikeItself
<1>3. \A p \in RegPair \cup {"SP", "AF"} : Pair16(z, p) \in Word /\ Pair16(z, p) \in Int
  BY PairIsWord
<1>4. /\ z.alt.af \in Word /\ z.alt.bc \in Word /\ z.alt.de \in Word /\ z.alt.hl \in Word
      /\ z.alt.af \in Int /\ z.alt.bc \in Int /\ z.alt.de \in Int /\ z.alt.hl \in Int
  BY BytesAreNumbers DEF IsProcessor, Alternates
<1>5. {"BC", "DE", "HL", "AF"} \subseteq RegPair \cup {"SP", "AF"}
  BY DEF RegPair
<1>6. CASE d.ins.op = "EX_RX_RX"
  <2>1. Exchange(z, d) = Set16(Set16(z, "DE", Pair16(z, d.named)), d.named, Pair16(z, "DE"))
    BY <1>6 DEF Exchange, Swapped
  <2>2. Like(Set16(z, "DE", Pair16(z, d.named)), z)
    BY <1>1, <1>2, <1>3, <1>5, Set16Keeps
  <2>3. Pair16(z, "DE") \in Int
    BY <1>3, <1>5
  <2>4. QED BY <1>1, <2>1, <2>2, <2>3, Set16Keeps
<1>7. CASE d.ins.op = "EX_AF_AFP"
  <2>1. Exchange(z, d) = Set16([z EXCEPT !.alt.af = Pair16(z, "AF")], "AF", z.alt.af)
    BY <1>7 DEF Exchange
  <2>2. Pair16(z, "AF") \in Word
    BY <1>3, <1>5
  <2>3. Like([z EXCEPT !.alt.af = Pair16(z, "AF")], z)
    BY <1>2, <2>2, AlternatesKeep
  <2>4. QED BY <1>4, <1>5, <2>1, <2>3, Set16Keeps
<1>8. CASE d.ins.op = "EXX"
  <2> DEFINE v == Set16(z, "BC", z.alt.bc)
             w == Set16(v, "DE", z.alt.de)
             x == Set16(w, "HL", z.alt.hl)
  <2>1. Like(v, z)
    BY <1>2, <1>4, <1>5, Set16Keeps
  <2> HIDE DEF v
  <2>2. Like(w, z)
    BY <1>4, <1>5, <2>1, Set16Keeps
  <2> HIDE DEF w
  <2>3. Like(x, z)
    BY <1>4, <1>5, <2>2, Set16Keeps
  <2> HIDE DEF x
  <2>4. Pair16(z, "BC") \in Word /\ Pair16(z, "DE") \in Word /\ Pair16(z, "HL") \in Word
    BY <1>3, <1>5
  <2>5. Like([x EXCEPT !.alt.bc = Pair16(z, "BC"), !.alt.de = Pair16(z, "DE"),
                       !.alt.hl = Pair16(z, "HL")], z)
    BY <2>3, <2>4, AlternatesKeep
  <2>6. Exchange(z, d) = [x EXCEPT !.alt.bc = Pair16(z, "BC"), !.alt.de = Pair16(z, "DE"),
                                   !.alt.hl = Pair16(z, "HL")]
    BY <1>8 DEF Exchange, x, w, v
  <2>7. QED BY <2>5, <2>6
<1>9. CASE d.ins.op = "EX_ATRX_RX"
  <2> DEFINE w == Set16(z, d.named, Top(z))
  <2>1. Like(w, z)
    BY <1>1, <1>2, Readings, BytesAreNumbers, Set16Keeps
  <2> HIDE DEF w
  <2>2. z.sp \in Int /\ Pair16(z, d.named) \in Word
    BY <1>1, <1>3, BytesAreNumbers DEF IsProcessor
  <2>3. Like([w EXCEPT !.mem = writeWord(@, z.sp, Pair16(z, d.named))], z)
    BY <2>1, <2>2, WordKept
  <2>4. Exchange(z, d) = [w EXCEPT !.mem = writeWord(@, z.sp, Pair16(z, d.named))]
    BY <1>9 DEF Exchange, w
  <2>5. QED BY <2>3, <2>4
<1>10. QED BY <1>6, <1>7, <1>8, <1>9 DEF Exchanges

LEMMA ReadKeeps ==
  ASSUME NEW z, NEW w, Like(w, z), NEW port PROVE Like(Read(w, port), z)
<1>1. 0 \in Flag
  BY DEF Flag
<1>2. QED BY <1>1 DEF Read, Like, IsProcessor

LEMMA MovedKeeps ==
  ASSUME NEW z, NEW w, Like(w, z), NEW de \in Int, NEW step \in Int, NEW bc \in Int, NEW m \in Int
  PROVE  Like(Moved(w, de, step, bc, m), z)
<1> DEFINE v == Set16(w, "BC", bc)
           x == Set16(v, "DE", de + step)
           y == [x EXCEPT !.f.h = 0, !.f.p = Yes(bc # 0), !.f.n = 0]
<1>1. {"BC", "DE"} \subseteq RegPair \cup {"SP", "AF"} /\ de + step \in Int
  BY DEF RegPair
<1>2. Like(v, z)
  BY <1>1, Set16Keeps
<1> HIDE DEF v
<1>3. Like(x, z)
  BY <1>1, <1>2, Set16Keeps
<1> HIDE DEF x
<1>4. Like(y, z)
  <2>1. 0 \in Flag /\ Yes(bc # 0) \in Flag
    BY YesIsFlag DEF Flag
  <2>2. QED BY <1>3, <2>1 DEF Like, IsProcessor, Flags
<1> HIDE DEF y
<1>5. Like(Put(y, de, m), z)
  BY <1>4, PutKeeps
<1>6. QED BY <1>5 DEF y, x, v, Moved

LEMMA ComparedKeeps ==
  ASSUME NEW z, NEW w, Like(w, z), NEW bc \in Int, NEW m \in Byte
  PROVE  Like(Compared(w, bc, m), z)
<1> DEFINE v == Set16(w, "BC", bc)
           f == [CP(w.r["A"], m).f EXCEPT !.p = Yes(bc # 0), !.c = w.f.c]
<1>1. Like(v, z)
  BY Set16Keeps DEF RegPair
<1>2. f \in Flags
  <2>1. w.r["A"] \in Byte /\ w.f \in Flags
    BY DEF Like, IsProcessor, RegName
  <2>2. "CP" \in Operations /\ Computed("CP", w.r["A"], m, w.f) = CP(w.r["A"], m)
    BY DEF Operations, Computed
  <2>3. CP(w.r["A"], m).f \in Flags
    BY <2>1, <2>2, OperationOutcome DEF Outcome
  <2>4. Yes(bc # 0) \in Flag /\ w.f.c \in Flag
    BY <2>1, YesIsFlag DEF Flags
  <2>5. QED BY <2>3, <2>4 DEF Flags
<1> HIDE DEF v, f
<1>3. Like([v EXCEPT !.f = f], z)
  BY <1>1, <1>2, FlagsKeep
<1>4. QED BY <1>3 DEF v, f, Compared

LEMMA TransferKeeps ==
  ASSUME NEW z, NEW w, Like(w, z), NEW hl \in Int, NEW b, Outcome(b), NEW any \in Byte
  PROVE  Like(Received(w, hl, b, any), z) /\ Like(Sent(w, b), z)
<1>1. "B" \in RegName /\ b.r \in Byte /\ b.f \in Flags /\ any \in Int
  BY BytesAreNumbers DEF RegName, Outcome
<1>2. Like(Set8(Read(w, w.r["C"]), "B", b.r), z) /\ Like(Set8(w, "B", b.r), z)
  BY <1>1, ReadKeeps, Set8Keeps
<1>3. Like(Put(Set8(Read(w, w.r["C"]), "B", b.r), hl, any), z)
  BY <1>1, <1>2, PutKeeps
<1>4. QED BY <1>1, <1>2, <1>3, FlagsKeep DEF Received, Sent

LEMMA RoundKeeps ==
  ASSUME NEW z, IsProcessor(z), NEW d, d.ins.op \in Blocks, NEW any \in Byte
  PROVE  Like(RoundOf(z, d, any), z)
<1> DEFINE op == d.ins.op
           step == IF op \in Up THEN 1 ELSE 65535
           hl == Pair16(z, "HL")
           de == Pair16(z, "DE")
           bc == (Pair16(z, "BC") + 65535) % 65536
           b == DEC(z.r["B"], z.f)
           m == read(z.mem, hl)
           w == Set16(z, "HL", hl + step)
           again == IF op \in Moving THEN bc # 0
                    ELSE IF op \in Comparing THEN bc # 0 /\ m # z.r["A"]
                    ELSE b.r # 0
           v == CASE op \in Moving -> Moved(w, de, step, bc, m)
                  [] op \in Comparing -> Compared(w, bc, m)
                  [] op \in Receiving -> Received(w, hl, b, any)
                  [] op \in Sending -> Sent(w, b)
<1>0. RoundOf(z, d, any) = IF op \in Repeating /\ again THEN Skip(v, 65534) ELSE v
  BY DEF RoundOf
<1>1. {"BC", "DE", "HL", "AF"} \subseteq RegPair \cup {"SP", "AF"} /\ "B" \in RegName
  BY DEF RegPair, RegName
<1>2. hl \in Int /\ de \in Int /\ Pair16(z, "BC") \in Int
  BY <1>1, PairIsWord
<1>3. step \in Int /\ hl + step \in Int /\ bc \in Int
  BY <1>2
<1>4. m \in Byte /\ m \in Int
  BY MemoryIsBytes, BytesAreNumbers
<1>5. Outcome(b)
  <2>1. z.r["B"] \in Byte /\ z.f \in Flags /\ "DEC" \in Changes
    BY <1>1, RegisterIsByte DEF IsProcessor, Changes
  <2>2. Changed("DEC", z.r["B"], z.f) = DEC(z.r["B"], z.f)
    BY DEF Changed
  <2>3. QED BY <2>1, <2>2, ChangeOutcome
<1> HIDE DEF step, hl, de, bc, b, m
<1>6. Like(w, z)
  BY <1>1, <1>3, LikeItself, Set16Keeps
<1> HIDE DEF w
<1>7. /\ Like(Moved(w, de, step, bc, m), z) /\ Like(Compared(w, bc, m), z)
      /\ Like(Received(w, hl, b, any), z) /\ Like(Sent(w, b), z)
  BY <1>2, <1>3, <1>4, <1>5, <1>6, MovedKeeps, ComparedKeeps, TransferKeeps
<1>8. Like(v, z)
  <2>1. CASE op \in Moving
    <3>1. op \notin Comparing /\ op \notin Receiving /\ op \notin Sending
      BY <2>1 DEF Moving, Comparing, Receiving, Sending
    <3>2. v = Moved(w, de, step, bc, m)
      BY <2>1, <3>1
    <3>3. QED BY <1>7, <3>2
  <2>2. CASE op \in Comparing
    <3>1. op \notin Moving /\ op \notin Receiving /\ op \notin Sending
      BY <2>2 DEF Moving, Comparing, Receiving, Sending
    <3>2. v = Compared(w, bc, m)
      BY <2>2, <3>1
    <3>3. QED BY <1>7, <3>2
  <2>3. CASE op \in Receiving
    <3>1. op \notin Moving /\ op \notin Comparing /\ op \notin Sending
      BY <2>3 DEF Moving, Comparing, Receiving, Sending
    <3>2. v = Received(w, hl, b, any)
      BY <2>3, <3>1
    <3>3. QED BY <1>7, <3>2
  <2>4. CASE op \in Sending
    <3>1. op \notin Moving /\ op \notin Comparing /\ op \notin Receiving
      BY <2>4 DEF Moving, Comparing, Receiving, Sending
    <3>2. v = Sent(w, b)
      BY <2>4, <3>1
    <3>3. QED BY <1>7, <3>2
  <2>5. QED BY <2>1, <2>2, <2>3, <2>4 DEF Blocks
<1> HIDE DEF v, again
<1>9. Like(Skip(v, 65534), z)
  BY <1>8, SkipKeeps
<1>10. QED BY <1>0, <1>8, <1>9

LEMMA AccumulatorKeeps ==
  ASSUME NEW z, IsProcessor(z), NEW d, WellDecoded(d), d.ins.op \in Operations
  PROVE  Like(OnAccumulator(z, d), z)
<1> DEFINE x == d.ins.x
           res == Computed(d.ins.op, z.r["A"], Operand8(z, d), z.f)
           w == IF x = "n" THEN Skip(z, 1) ELSE IF x = "(HL)" THEN After(z, d) ELSE z
<1>1. OnAccumulator(z, d) = [Set8(w, "A", res.r) EXCEPT !.f = res.f]
  BY DEF OnAccumulator
<1>2. x \in Reg8 \cup {"(HL)", "n"}
  BY DEF WellDecoded, Fits, OtherFits
<1>3. Operand8(z, d) \in Byte
  <2>1. CASE x = "n"
    <3>1. Operand8(z, d) = Imm8(z)
      BY <2>1 DEF Operand8
    <3>2. QED BY <3>1, Readings
  <2>2. CASE x = "(HL)"
    <3>1. Operand8(z, d) = read(z.mem, Address(z, d))
      BY <2>2 DEF Operand8
    <3>2. QED BY <3>1, MemoryIsBytes
  <2>3. CASE x # "n" /\ x # "(HL)"
    <3>1. Operand8(z, d) = z.r[In(d.pointed, x)]
      BY <2>3 DEF Operand8
    <3>2. x \in Reg8 \cup {"I"}
      BY <1>2, <2>3
    <3>3. In(d.pointed, x) \in RegName
      BY <3>2, NamesOf DEF WellDecoded
    <3>4. QED BY <3>1, <3>3, RegisterIsByte
  <2>4. QED BY <2>1, <2>2, <2>3
<1>4. Outcome(res)
  <2>1. z.r["A"] \in Byte /\ z.f \in Flags
    BY RegisterIsByte DEF IsProcessor, RegName
  <2>2. QED BY <1>3, <2>1, OperationOutcome
<1> HIDE DEF res
<1>5. Like(w, z)
  <2>1. Like(z, z) /\ Like(Skip(z, 1), z) /\ Like(After(z, d), z)
    BY LikeItself, SkipKeeps, AddressIsInt
  <2>2. QED BY <2>1
<1> HIDE DEF w
<1>6. Like(Set8(w, "A", res.r), z)
  BY <1>4, <1>5, Set8Keeps DEF Outcome, RegName
<1>7. QED BY <1>1, <1>4, <1>6, FlagsKeep DEF Outcome

LEMMA GeneralKeeps ==
  ASSUME NEW z, IsProcessor(z), NEW d, d.ins.op \in Generals
  PROVE  Like(General(z, d), z)
<1> DEFINE op == d.ins.op
           a == z.r["A"]
           hl == Pair16(z, "HL")
           m == read(z.mem, hl)
           Held(res) == [Set8(z, "A", res.r) EXCEPT !.f = res.f]
<1>1. a \in Byte /\ m \in Byte /\ z.f \in Flags /\ hl \in Int
  BY RegisterIsByte, MemoryIsBytes, PairIsWord DEF IsProcessor, RegName, RegPair
<1>2. ASSUME NEW res, Outcome(res) PROVE Like(Held(res), z)
  BY <1>2, LikeItself, Set8Keeps, FlagsKeep DEF Outcome, RegName
<1>3. ASSUME NEW res, Outcome(res) PROVE Outcome(Rotated(z.f, res))
  BY <1>1, <1>3 DEF Outcome, Rotated, Flags, Flag
<1>4. /\ Outcome(DAA(a, z.f)) /\ Outcome(CPL(a, z.f)) /\ Outcome(NEG(a))
      /\ Outcome([r |-> a, f |-> SCF(z.f)]) /\ Outcome([r |-> a, f |-> CCF(z.f)])
  BY <1>1, AdjustOutcome DEF Outcome
<1>5. /\ Outcome(Rotated(z.f, RLC(a))) /\ Outcome(Rotated(z.f, RRC(a)))
      /\ Outcome(Rotated(z.f, RL(a, z.f))) /\ Outcome(Rotated(z.f, RR(a, z.f)))
  BY <1>1, <1>3, RotationsOutcome
<1>6. /\ Outcome(RLD(a, m, z.f)) /\ RLD(a, m, z.f).m \in Int
      /\ Outcome(RRD(a, m, z.f)) /\ RRD(a, m, z.f).m \in Int
  BY <1>1, DigitsOutcome, BytesAreNumbers
<1> HIDE DEF a, hl, m, Held
<1>7. CASE op \notin {"RLD", "RRD"}
  <2>1. PICK res : Outcome(res) /\ General(z, d) = Held(res)
    <3>1. CASE op = "DAA" BY <1>4, <3>1 DEF General, a, hl, m, Held
    <3>2. CASE op = "CPL" BY <1>4, <3>2 DEF General, a, hl, m, Held
    <3>3. CASE op = "NEG" BY <1>4, <3>3 DEF General, a, hl, m, Held
    <3>4. CASE op = "SCF" BY <1>4, <3>4 DEF General, a, hl, m, Held
    <3>5. CASE op = "CCF" BY <1>4, <3>5 DEF General, a, hl, m, Held
    <3>6. CASE op = "RLCA" BY <1>5, <3>6 DEF General, a, hl, m, Held
    <3>7. CASE op = "RRCA" BY <1>5, <3>7 DEF General, a, hl, m, Held
    <3>8. CASE op = "RLA" BY <1>5, <3>8 DEF General, a, hl, m, Held
    <3>9. CASE op = "RRA" BY <1>5, <3>9 DEF General, a, hl, m, Held
    <3>10. QED
      BY <1>7, <3>1, <3>2, <3>3, <3>4, <3>5, <3>6, <3>7, <3>8, <3>9 DEF Generals
  <2>2. QED BY <1>2, <2>1
<1>8. CASE op = "RLD"
  <2>1. General(z, d) = Put(Held(RLD(a, m, z.f)), hl, RLD(a, m, z.f).m)
    BY <1>8 DEF General, a, hl, m, Held
  <2>2. Like(Held(RLD(a, m, z.f)), z)
    BY <1>2, <1>6
  <2>3. QED BY <1>1, <1>6, <2>1, <2>2, PutKeeps
<1>9. CASE op = "RRD"
  <2>1. General(z, d) = Put(Held(RRD(a, m, z.f)), hl, RRD(a, m, z.f).m)
    BY <1>9 DEF General, a, hl, m, Held
  <2>2. Like(Held(RRD(a, m, z.f)), z)
    BY <1>2, <1>6
  <2>3. QED BY <1>1, <1>6, <2>1, <2>2, PutKeeps
<1>10. QED BY <1>7, <1>8, <1>9

LEMMA OperandKeeps ==
  ASSUME NEW z, IsProcessor(z), NEW d, WellDecoded(d), d.ins.op \in Changes
  PROVE  Like(OnOperand(z, d), z)
<1> DEFINE op == d.ins.op
           x == d.ins.x
           reg == In(IF op \in {"INC", "DEC"} THEN d.named ELSE d.pointed, x)
           at == Address(z, d)
           there == Changed(op, read(z.mem, at), z.f)
           here == Changed(op, z.r[reg], z.f)
<1>1. x \in Reg8 \cup {"(HL)"}
  BY DEF WellDecoded, Fits, OtherFits
<1>2. z.f \in Flags /\ at \in Int /\ Like(After(z, d), z)
  BY AddressIsInt DEF IsProcessor
<1>3. CASE x = "(HL)"
  <2>1. OnOperand(z, d) = [Put(After(z, d), at, there.r) EXCEPT !.f = there.f]
    BY <1>3 DEF OnOperand
  <2>2. Outcome(there)
    BY <1>2, MemoryIsBytes, ChangeOutcome
  <2> HIDE DEF there, at
  <2>3. there.r \in Int /\ there.f \in Flags
    BY <2>2, BytesAreNumbers DEF Outcome
  <2>4. Like(Put(After(z, d), at, there.r), z)
    BY <1>2, <2>3, PutKeeps
  <2>5. QED BY <2>1, <2>3, <2>4, FlagsKeep
<1>4. CASE x # "(HL)"
  <2>1. OnOperand(z, d) = [Set8(z, reg, here.r) EXCEPT !.f = here.f]
    BY <1>4 DEF OnOperand
  <2>2. reg \in RegName
    <3>1. x \in Reg8 \cup {"I"}
      BY <1>1, <1>4
    <3>2. In(d.named, x) \in RegName /\ In(d.pointed, x) \in RegName
      BY <3>1, NamesOf DEF WellDecoded
    <3>3. QED BY <3>2
  <2> HIDE DEF reg
  <2>3. Outcome(here)
    BY <1>2, <2>2, RegisterIsByte, ChangeOutcome
  <2> HIDE DEF here
  <2>4. Like(Set8(z, reg, here.r), z)
    BY <2>2, <2>3, LikeItself, Set8Keeps DEF Outcome
  <2>5. QED BY <2>1, <2>3, <2>4, FlagsKeep DEF Outcome
<1>5. QED BY <1>3, <1>4

\* Setting or clearing one bit of a byte leaves a byte.
LEMMA BitChanged ==
  ASSUME NEW v \in Byte, NEW k \in 0..7
  PROVE  /\ Weight(k) \in Nat \ {0}
         /\ v + Weight(k) * (1 - Bit(v, Weight(k))) \in Byte
         /\ v - Weight(k) * Bit(v, Weight(k)) \in Byte
<1> DEFINE b(w) == Bit(v, w)
<1>1. \A w \in {1, 2, 4, 8, 16, 32, 64, 128} : b(w) = 0 \/ b(w) = 1
  BY BitIsFlag DEF Byte, Flag
<1>2. v = b(1) + 2 * b(2) + 4 * b(4) + 8 * b(8) + 16 * b(16) + 32 * b(32) + 64 * b(64)
          + 128 * b(128)
  BY ByteIsItsBits
<1> HIDE DEF b
<1>3. ASSUME NEW w \in {1, 2, 4, 8, 16, 32, 64, 128}
      PROVE  w \in Nat \ {0} /\ v + w * (1 - b(w)) \in Byte /\ v - w * b(w) \in Byte
  BY <1>1, <1>2 DEF Byte
<1>4. Weight(k) \in {1, 2, 4, 8, 16, 32, 64, 128}
  BY DEF Weight
<1>5. QED BY <1>3, <1>4 DEF b

LEMMA OneBitKeeps ==
  ASSUME NEW z, IsProcessor(z), NEW d, WellDecoded(d), d.ins.op \in Bits
  PROVE  Like(OnOneBit(z, d), z)
<1> DEFINE op == d.ins.op
           y == d.ins.y
           w == Weight(d.ins.x)
           at == Address(z, d)
           reg == In(d.pointed, y)
           v == IF y = "(HL)" THEN read(z.mem, at) ELSE z.r[reg]
           set == Yes(Bit(v, w) = 1)
           f == [s |-> IF w = 128 THEN set ELSE 0, z |-> 1 - set, h |-> 1,
                 p |-> 1 - set, n |-> 0, c |-> z.f.c]
           Stored(new) == IF y = "(HL)" THEN Put(z, at, new) ELSE Set8(z, reg, new)
<1>1. d.ins.x \in 0..7 /\ y \in Reg8 \cup {"(HL)"}
  BY DEF WellDecoded, Fits, OtherFits
<1>2. y # "(HL)" => reg \in RegName
  <2>1. y # "(HL)" => y \in Reg8 \cup {"I"}
    BY <1>1
  <2>2. QED BY <2>1, NamesOf DEF WellDecoded
<1>3. at \in Int /\ v \in Byte /\ Like(z, z)
  BY <1>2, AddressIsInt, MemoryIsBytes, RegisterIsByte, LikeItself
<1>4. op = "BIT" => OnOneBit(z, d) = [z EXCEPT !.f = f]
  BY DEF OnOneBit
<1>5. op = "SET" => OnOneBit(z, d) = Stored(v + w * (1 - Bit(v, w)))
  BY DEF OnOneBit
<1>6. op = "RES" => OnOneBit(z, d) = Stored(v - w * Bit(v, w))
  BY DEF OnOneBit
<1>7. f \in Flags
  <2>1. set \in Flag /\ z.f.c \in Flag
    BY YesIsFlag DEF IsProcessor, Flags
  <2> HIDE DEF set, w
  <2>2. QED BY <2>1 DEF Flags, Flag
<1> HIDE DEF f, at, reg
<1>8. ASSUME NEW new \in Byte PROVE Like(Stored(new), z)
  BY <1>2, <1>3, BytesAreNumbers, PutKeeps, Set8Keeps
<1> HIDE DEF v
<1>9. v + w * (1 - Bit(v, w)) \in Byte /\ v - w * Bit(v, w) \in Byte
  BY <1>1, <1>3, BitChanged
<1> HIDE DEF w, Stored
<1>10. CASE op = "BIT" BY <1>3, <1>4, <1>7, <1>10, FlagsKeep
<1>11. CASE op = "SET" BY <1>5, <1>8, <1>9, <1>11
<1>12. CASE op = "RES" BY <1>6, <1>8, <1>9, <1>12
<1>13. QED BY <1>10, <1>11, <1>12 DEF Bits

LEMMA WideKeeps ==
  ASSUME NEW z, IsProcessor(z), NEW d, WellDecoded(d), d.ins.op \in Wides
  PROVE  Like(Arithmetic16(z, d), z)
<1> DEFINE op == d.ins.op
           to == Of(d.named, d.ins.x)
           x == Pair16(z, to)
           y == IF d.ins.y = "" THEN 1 ELSE Pair16(z, Of(d.named, d.ins.y))
           Held(res) == [Set16(z, to, res.r) EXCEPT !.f = res.f]
           Sized(res) == res.r \in Int /\ res.f \in Flags
<1>1. d.ins.x \in Wide4 /\ d.ins.y \in Wide4 \cup {""}
  BY DEF WellDecoded, Fits, OtherFits
<1>2. to \in RegPair \cup {"SP", "AF"} /\ to # "AF" /\ z.f \in Flags
  BY <1>1, NamesOf DEF WellDecoded, IsProcessor
<1>3. x \in Word /\ y \in Word
  <2>1. 1 \in Word
    BY DEF Word
  <2>2. d.ins.y # "" => Of(d.named, d.ins.y) \in RegPair \cup {"SP", "AF"}
    BY <1>1, NamesOf DEF WellDecoded
  <2>3. QED BY <1>2, <2>1, <2>2, PairIsWord
<1>4. ASSUME NEW res, Sized(res) PROVE Like(Held(res), z)
  BY <1>2, <1>4, LikeItself, Set16Keeps, FlagsKeep
<1>5. Sized(ADD16(x, y, z.f)) /\ Sized(ADC16(x, y, z.f)) /\ Sized(SBC16(x, y, z.f))
  BY <1>2, <1>3, WideOutcome
<1> HIDE DEF to, x, y, Held
<1>6. Sized([r |-> x + 1, f |-> z.f]) /\ Sized([r |-> x + 65535, f |-> z.f])
  <2>1. x \in Int
    BY <1>3, BytesAreNumbers
  <2>2. QED BY <1>2, <2>1
<1>7. CASE op = "ADD_RX_RX"
  <2>1. Arithmetic16(z, d) = Held(ADD16(x, y, z.f))
    BY <1>7 DEF Arithmetic16, to, x, y, Held
  <2>2. QED BY <1>4, <1>5, <2>1
<1>8. CASE op = "ADC_RX_RX"
  <2>1. Arithmetic16(z, d) = Held(ADC16(x, y, z.f))
    BY <1>8 DEF Arithmetic16, to, x, y, Held
  <2>2. QED BY <1>4, <1>5, <2>1
<1>9. CASE op = "SBC_RX_RX"
  <2>1. Arithmetic16(z, d) = Held(SBC16(x, y, z.f))
    BY <1>9 DEF Arithmetic16, to, x, y, Held
  <2>2. QED BY <1>4, <1>5, <2>1
<1>10. CASE op = "INC_RX"
  <2>1. Arithmetic16(z, d) = Held([r |-> x + 1, f |-> z.f])
    BY <1>10 DEF Arithmetic16, to, x, y, Held
  <2>2. QED BY <1>4, <1>6, <2>1
<1>11. CASE op = "DEC_RX"
  <2>1. Arithmetic16(z, d) = Held([r |-> x + 65535, f |-> z.f])
    BY <1>11 DEF Arithmetic16, to, x, y, Held
  <2>2. QED BY <1>4, <1>6, <2>1
<1>12. QED BY <1>7, <1>8, <1>9, <1>10, <1>11 DEF Wides

LEMMA JumpKeeps ==
  ASSUME NEW z, IsProcessor(z), NEW d, WellDecoded(d), d.ins.op \in Jumps
  PROVE  Like(Jump(z, d), z)
<1> DEFINE op == d.ins.op
           short == Skip(z, 1)
           relative == To(z, z.pc + 1 + Signed(Imm8(z)))
           b == (z.r["B"] + 255) % 256
<1>1. z.pc \in Int /\ z.pc + 1 + Signed(Imm8(z)) \in Int /\ Imm16(z) \in Int
  <2>1. z.pc \in Word
    BY DEF IsProcessor
  <2>2. Signed(Imm8(z)) \in Int /\ Imm16(z) \in Word
    BY Readings
  <2>3. z.pc \in Int /\ Imm16(z) \in Int
    BY <2>1, <2>2, BytesAreNumbers
  <2>4. QED BY <2>2, <2>3
<1>2. Pair16(z, d.named) \in Int
  BY NamesOf, PairIsWord DEF WellDecoded
<1>3. "B" \in RegName /\ b \in Byte
  <2>1. "B" \in RegName
    BY DEF RegName
  <2>2. z.r["B"] \in Byte
    BY <2>1, RegisterIsByte
  <2>3. z.r["B"] \in Int
    BY <2>2, BytesAreNumbers
  <2>4. z.r["B"] + 255 \in Int
    BY <2>3
  <2>5. QED BY <2>1, <2>4, Cuts
<1>4. /\ Like(z, z) /\ Like(short, z) /\ Like(relative, z)
      /\ Like(Skip(z, 2), z) /\ Like(To(z, Imm16(z)), z) /\ Like(To(z, Pair16(z, d.named)), z)
  <2>1. Like(z, z)
    BY LikeItself
  <2>2. Like(short, z) /\ Like(Skip(z, 2), z)
    BY <2>1, SkipKeeps
  <2>3. Like(relative, z)
    BY <1>1, <2>1, ToKeeps
  <2>4. Like(To(z, Imm16(z)), z) /\ Like(To(z, Pair16(z, d.named)), z)
    BY <1>1, <1>2, <2>1, ToKeeps
  <2>5. QED BY <2>1, <2>2, <2>3, <2>4
<1>5. CASE op = "JP"
  <2>1. Jump(z, d) = IF Holds(z.f, d.ins.x) THEN To(z, Imm16(z)) ELSE Skip(z, 2)
    BY <1>5 DEF Jump
  <2>2. QED BY <1>4, <2>1
<1>6. CASE op = "JR"
  <2>1. Jump(z, d) = IF Holds(z.f, d.ins.x) THEN relative ELSE short
    BY <1>6 DEF Jump
  <2>2. QED BY <1>4, <2>1
<1>7. CASE op = "DJNZ"
  <2>1. Jump(z, d) = Set8(IF b # 0 THEN relative ELSE short, "B", b)
    BY <1>7 DEF Jump
  <2> HIDE DEF relative, short, b
  <2>2. Like(IF b # 0 THEN relative ELSE short, z)
    BY <1>4
  <2>3. QED BY <1>3, <2>1, <2>2, Set8Keeps
<1>8. CASE op = "JP_ATRX"
  <2>1. Jump(z, d) = To(z, Pair16(z, d.named))
    BY <1>8 DEF Jump
  <2>2. QED BY <1>4, <2>1
<1>9. QED BY <1>5, <1>6, <1>7, <1>8 DEF Jumps

LEMMA CallKeeps ==
  ASSUME NEW z, IsProcessor(z), NEW d, WellDecoded(d), d.ins.op \in Calls \cup Returns
  PROVE  Like(CallOrReturn(z, d), z)
<1> DEFINE op == d.ins.op
           w == Skip(z, 2)
           back == To(Pop(z), Top(z))
<1>1. Imm16(z) \in Int /\ Top(z) \in Int
  BY Readings, BytesAreNumbers
<1>2. Like(z, z) /\ Like(w, z) /\ Like(back, z)
  <2>1. Like(z, z)
    BY LikeItself
  <2>2. Like(w, z) /\ Like(Pop(z), z)
    BY <2>1, SkipKeeps
  <2>3. QED BY <1>1, <2>1, <2>2, ToKeeps
<1>3. CASE op = "CALL"
  <2>1. CallOrReturn(z, d) = IF Holds(z.f, d.ins.x) THEN To(Push(w, w.pc), Imm16(z)) ELSE w
    BY <1>3 DEF CallOrReturn
  <2> HIDE DEF w
  <2>2. w.pc \in Word
    BY <1>2 DEF Like, IsProcessor
  <2>3. Like(To(Push(w, w.pc), Imm16(z)), z)
    <3>1. Like(Push(w, w.pc), z)
      BY <1>2, <2>2, PushKeeps
    <3>2. QED BY <1>1, <3>1, ToKeeps
  <2>4. QED BY <1>2, <2>1, <2>3
<1>4. CASE op = "RST"
  <2>1. CallOrReturn(z, d) = To(Push(z, z.pc), d.ins.x)
    BY <1>4 DEF CallOrReturn
  <2>2. d.ins.x \in Int
    BY <1>4 DEF WellDecoded, Fits, OtherFits
  <2>3. z.pc \in Word
    BY DEF IsProcessor
  <2>4. Like(Push(z, z.pc), z)
    BY <1>2, <2>3, PushKeeps
  <2>5. QED BY <2>1, <2>2, <2>4, ToKeeps
<1>5. CASE op = "RET"
  <2>1. CallOrReturn(z, d) = IF Holds(z.f, d.ins.x) THEN back ELSE z
    BY <1>5 DEF CallOrReturn
  <2>2. QED BY <1>2, <2>1
<1>6. CASE op = "RETI"
  <2>1. CallOrReturn(z, d) = back
    BY <1>6 DEF CallOrReturn
  <2>2. QED BY <1>2, <2>1
<1>7. CASE op = "RETN"
  <2>1. CallOrReturn(z, d) = [back EXCEPT !.iff1 = z.iff2]
    BY <1>7 DEF CallOrReturn
  <2>2. z.iff2 \in Flag
    BY DEF IsProcessor
  <2> HIDE DEF back
  <2>3. QED BY <1>2, <2>1, <2>2 DEF Like, IsProcessor
<1>8. QED BY <1>3, <1>4, <1>5, <1>6, <1>7 DEF Calls, Returns

LEMMA InOutKeeps ==
  ASSUME NEW z, IsProcessor(z), NEW d, WellDecoded(d), d.ins.op \in Ports, NEW any \in Byte
  PROVE  Like(InOut(z, d, any), z)
<1> DEFINE op == d.ins.op
           reg == In(d.pointed, d.ins.x)
<1>1. Like(z, z) /\ Like(Skip(z, 1), z) /\ "A" \in RegName
  BY LikeItself, SkipKeeps DEF RegName
<1>2. CASE op = "IN_R_ATb"
  <2>1. InOut(z, d, any) = Set8(Read(Skip(z, 1), Imm8(z)), "A", any)
    BY <1>2 DEF InOut
  <2>2. QED BY <1>1, <2>1, ReadKeeps, Set8Keeps
<1>3. CASE op = "IN_R_ATR"
  <2>1. InOut(z, d, any) = [Set8(Read(z, z.r["C"]), reg, any) EXCEPT !.f = OR(any, any).f]
    BY <1>3 DEF InOut
  <2>2. reg \in RegName
    <3>1. d.ins.x \in Reg8 \cup {"I"}
      BY <1>3 DEF WellDecoded, Fits, OtherFits
    <3>2. QED BY <3>1, NamesOf DEF WellDecoded
  <2>3. OR(any, any).f \in Flags
    BY LogicOutcome DEF Outcome
  <2> HIDE DEF reg
  <2>4. Like(Set8(Read(z, z.r["C"]), reg, any), z)
    BY <1>1, <2>2, ReadKeeps, Set8Keeps
  <2>5. QED BY <2>1, <2>3, <2>4, FlagsKeep
<1>4. CASE op = "OUT_ATb_R"
  <2>1. InOut(z, d, any) = Skip(z, 1)
    BY <1>4 DEF InOut
  <2>2. QED BY <1>1, <2>1
<1>5. CASE op = "OUT_ATR_R"
  <2>1. InOut(z, d, any) = z
    BY <1>5 DEF InOut
  <2>2. QED BY <1>1, <2>1
<1>6. QED BY <1>2, <1>3, <1>4, <1>5 DEF Ports

LEMMA ControlKeeps ==
  ASSUME NEW z, IsProcessor(z), NEW d, WellDecoded(d), d.ins.op \in Controls
  PROVE  /\ IsProcessor(Control(z, d))
         /\ d.ins.op # "HALT" => Control(z, d).mode = z.mode
<1> DEFINE op == d.ins.op
<1>1. CASE op \in {"NOP", "Z80EXT"}
  <2>1. Control(z, d) = z
    BY <1>1 DEF Control
  <2>2. QED BY <2>1
<1>2. CASE op = "HALT"
  <2>1. Control(z, d) = [z EXCEPT !.mode = "STOP"]
    BY <1>2 DEF Control
  <2>2. QED BY <1>2, <2>1 DEF IsProcessor
<1>3. CASE op = "DI"
  <2>1. Control(z, d) = [z EXCEPT !.iff1 = 0, !.iff2 = 0]
    BY <1>3 DEF Control
  <2>2. QED BY <2>1 DEF IsProcessor, Flag
<1>4. CASE op = "EI"
  <2>1. Control(z, d) = [z EXCEPT !.iff1 = 1, !.iff2 = 0]
    BY <1>4 DEF Control
  <2>2. QED BY <2>1 DEF IsProcessor, Flag
<1>5. CASE op = "IM"
  <2>1. Control(z, d) = [z EXCEPT !.im = d.ins.x]
    BY <1>5 DEF Control
  <2>2. d.ins.x \in {0, 1, 2}
    BY <1>5 DEF WellDecoded, Fits, OtherFits
  <2>3. QED BY <2>1, <2>2 DEF IsProcessor
<1>6. QED BY <1>1, <1>2, <1>3, <1>4, <1>5 DEF Controls

-------------------------------------------------------------------------------
(* One instruction: every family leaves a processor, and all but HALT its mode. *)

\* What executes an instruction of each family.
LEMMA FamilyExecutes ==
  ASSUME NEW z, NEW d, NEW any
  PROVE  /\ d.ins.op \in ByteLoads => simop(z, d, any) = LoadByte(z, d, any)
         /\ d.ins.op \in WordLoads => simop(z, d, any) = LoadWord(z, d)
         /\ d.ins.op \in Exchanges => simop(z, d, any) = Exchange(z, d)
         /\ d.ins.op \in Blocks => simop(z, d, any) = RoundOf(z, d, any)
         /\ d.ins.op \in Operations => simop(z, d, any) = OnAccumulator(z, d)
         /\ d.ins.op \in Generals => simop(z, d, any) = General(z, d)
         /\ d.ins.op \in Changes => simop(z, d, any) = OnOperand(z, d)
         /\ d.ins.op \in Bits => simop(z, d, any) = OnOneBit(z, d)
         /\ d.ins.op \in Wides => simop(z, d, any) = Arithmetic16(z, d)
         /\ d.ins.op \in Jumps => simop(z, d, any) = Jump(z, d)
         /\ d.ins.op \in Calls \cup Returns => simop(z, d, any) = CallOrReturn(z, d)
         /\ d.ins.op \in Ports => simop(z, d, any) = InOut(z, d, any)
         /\ d.ins.op \in Controls => simop(z, d, any) = Control(z, d)
<1> DEFINE op == d.ins.op
<1>1. ASSUME op \in ByteLoads PROVE simop(z, d, any) = LoadByte(z, d, any)
  <2>1. /\ op \notin WordLoads /\ op \notin Exchanges /\ op \notin Blocks /\ op \notin Operations
        /\ op \notin Generals /\ op \notin Changes /\ op \notin Bits /\ op \notin Wides
        /\ op \notin Jumps /\ op \notin Calls \cup Returns /\ op \notin Ports
    BY <1>1 DEF ByteLoads, WordLoads, Exchanges, Blocks, Moving, Comparing, Receiving,
      Sending,
      Operations, Generals, Changes, OnBytes, Bits, Wides, Jumps, Calls, Returns, Ports,
      Controls
  <2>2. QED BY <1>1, <2>1 DEF simop
<1>2. ASSUME op \in WordLoads PROVE simop(z, d, any) = LoadWord(z, d)
  <2>1. /\ op \notin ByteLoads /\ op \notin Exchanges /\ op \notin Blocks /\ op \notin Operations
        /\ op \notin Generals /\ op \notin Changes /\ op \notin Bits /\ op \notin Wides
        /\ op \notin Jumps /\ op \notin Calls \cup Returns /\ op \notin Ports
    BY <1>2 DEF ByteLoads, WordLoads, Exchanges, Blocks, Moving, Comparing, Receiving,
      Sending,
      Operations, Generals, Changes, OnBytes, Bits, Wides, Jumps, Calls, Returns, Ports,
      Controls
  <2>2. QED BY <1>2, <2>1 DEF simop
<1>3. ASSUME op \in Exchanges PROVE simop(z, d, any) = Exchange(z, d)
  <2>1. /\ op \notin ByteLoads /\ op \notin WordLoads /\ op \notin Blocks /\ op \notin Operations
        /\ op \notin Generals /\ op \notin Changes /\ op \notin Bits /\ op \notin Wides
        /\ op \notin Jumps /\ op \notin Calls \cup Returns /\ op \notin Ports
    BY <1>3 DEF ByteLoads, WordLoads, Exchanges, Blocks, Moving, Comparing, Receiving,
      Sending,
      Operations, Generals, Changes, OnBytes, Bits, Wides, Jumps, Calls, Returns, Ports,
      Controls
  <2>2. QED BY <1>3, <2>1 DEF simop
<1>4. ASSUME op \in Blocks PROVE simop(z, d, any) = RoundOf(z, d, any)
  <2>1. /\ op \notin ByteLoads /\ op \notin WordLoads /\ op \notin Exchanges /\ op \notin Operations
        /\ op \notin Generals /\ op \notin Changes /\ op \notin Bits /\ op \notin Wides
        /\ op \notin Jumps /\ op \notin Calls \cup Returns /\ op \notin Ports
    BY <1>4 DEF ByteLoads, WordLoads, Exchanges, Blocks, Moving, Comparing, Receiving,
      Sending,
      Operations, Generals, Changes, OnBytes, Bits, Wides, Jumps, Calls, Returns, Ports,
      Controls
  <2>2. QED BY <1>4, <2>1 DEF simop
<1>5. ASSUME op \in Operations PROVE simop(z, d, any) = OnAccumulator(z, d)
  <2>1. /\ op \notin ByteLoads /\ op \notin WordLoads /\ op \notin Exchanges /\ op \notin Blocks
        /\ op \notin Generals /\ op \notin Changes /\ op \notin Bits /\ op \notin Wides
        /\ op \notin Jumps /\ op \notin Calls \cup Returns /\ op \notin Ports
    BY <1>5 DEF ByteLoads, WordLoads, Exchanges, Blocks, Moving, Comparing, Receiving,
      Sending,
      Operations, Generals, Changes, OnBytes, Bits, Wides, Jumps, Calls, Returns, Ports,
      Controls
  <2>2. QED BY <1>5, <2>1 DEF simop
<1>6. ASSUME op \in Generals PROVE simop(z, d, any) = General(z, d)
  <2>1. /\ op \notin ByteLoads /\ op \notin WordLoads /\ op \notin Exchanges /\ op \notin Blocks
        /\ op \notin Operations /\ op \notin Changes /\ op \notin Bits /\ op \notin Wides
        /\ op \notin Jumps /\ op \notin Calls \cup Returns /\ op \notin Ports
    BY <1>6 DEF ByteLoads, WordLoads, Exchanges, Blocks, Moving, Comparing, Receiving,
      Sending,
      Operations, Generals, Changes, OnBytes, Bits, Wides, Jumps, Calls, Returns, Ports,
      Controls
  <2>2. QED BY <1>6, <2>1 DEF simop
<1>7. ASSUME op \in Changes PROVE simop(z, d, any) = OnOperand(z, d)
  <2>1. /\ op \notin ByteLoads /\ op \notin WordLoads /\ op \notin Exchanges /\ op \notin Blocks
        /\ op \notin Operations /\ op \notin Generals /\ op \notin Bits /\ op \notin Wides
        /\ op \notin Jumps /\ op \notin Calls \cup Returns /\ op \notin Ports
    BY <1>7 DEF ByteLoads, WordLoads, Exchanges, Blocks, Moving, Comparing, Receiving,
      Sending,
      Operations, Generals, Changes, OnBytes, Bits, Wides, Jumps, Calls, Returns, Ports,
      Controls
  <2>2. QED BY <1>7, <2>1 DEF simop
<1>8. ASSUME op \in Bits PROVE simop(z, d, any) = OnOneBit(z, d)
  <2>1. /\ op \notin ByteLoads /\ op \notin WordLoads /\ op \notin Exchanges /\ op \notin Blocks
        /\ op \notin Operations /\ op \notin Generals /\ op \notin Changes /\ op \notin Wides
        /\ op \notin Jumps /\ op \notin Calls \cup Returns /\ op \notin Ports
    BY <1>8 DEF ByteLoads, WordLoads, Exchanges, Blocks, Moving, Comparing, Receiving,
      Sending,
      Operations, Generals, Changes, OnBytes, Bits, Wides, Jumps, Calls, Returns, Ports,
      Controls
  <2>2. QED BY <1>8, <2>1 DEF simop
<1>9. ASSUME op \in Wides PROVE simop(z, d, any) = Arithmetic16(z, d)
  <2>1. /\ op \notin ByteLoads /\ op \notin WordLoads /\ op \notin Exchanges /\ op \notin Blocks
        /\ op \notin Operations /\ op \notin Generals /\ op \notin Changes /\ op \notin Bits
        /\ op \notin Jumps /\ op \notin Calls \cup Returns /\ op \notin Ports
    BY <1>9 DEF ByteLoads, WordLoads, Exchanges, Blocks, Moving, Comparing, Receiving,
      Sending,
      Operations, Generals, Changes, OnBytes, Bits, Wides, Jumps, Calls, Returns, Ports,
      Controls
  <2>2. QED BY <1>9, <2>1 DEF simop
<1>10. ASSUME op \in Jumps PROVE simop(z, d, any) = Jump(z, d)
  <2>1. /\ op \notin ByteLoads /\ op \notin WordLoads /\ op \notin Exchanges /\ op \notin Blocks
        /\ op \notin Operations /\ op \notin Generals /\ op \notin Changes /\ op \notin Bits
        /\ op \notin Wides /\ op \notin Calls \cup Returns /\ op \notin Ports
    BY <1>10 DEF ByteLoads, WordLoads, Exchanges, Blocks, Moving, Comparing, Receiving,
      Sending,
      Operations, Generals, Changes, OnBytes, Bits, Wides, Jumps, Calls, Returns, Ports,
      Controls
  <2>2. QED BY <1>10, <2>1 DEF simop
<1>11. ASSUME op \in Calls \cup Returns PROVE simop(z, d, any) = CallOrReturn(z, d)
  <2>1. /\ op \notin ByteLoads /\ op \notin WordLoads /\ op \notin Exchanges /\ op \notin Blocks
        /\ op \notin Operations /\ op \notin Generals /\ op \notin Changes /\ op \notin Bits
        /\ op \notin Wides /\ op \notin Jumps /\ op \notin Ports
    BY <1>11 DEF ByteLoads, WordLoads, Exchanges, Blocks, Moving, Comparing, Receiving,
      Sending,
      Operations, Generals, Changes, OnBytes, Bits, Wides, Jumps, Calls, Returns, Ports,
      Controls
  <2>2. QED BY <1>11, <2>1 DEF simop
<1>12. ASSUME op \in Ports PROVE simop(z, d, any) = InOut(z, d, any)
  <2>1. /\ op \notin ByteLoads /\ op \notin WordLoads /\ op \notin Exchanges /\ op \notin Blocks
        /\ op \notin Operations /\ op \notin Generals /\ op \notin Changes /\ op \notin Bits
        /\ op \notin Wides /\ op \notin Jumps /\ op \notin Calls \cup Returns
    BY <1>12 DEF ByteLoads, WordLoads, Exchanges, Blocks, Moving, Comparing, Receiving,
      Sending,
      Operations, Generals, Changes, OnBytes, Bits, Wides, Jumps, Calls, Returns, Ports,
      Controls
  <2>2. QED BY <1>12, <2>1 DEF simop
<1>13. ASSUME op \in Controls PROVE simop(z, d, any) = Control(z, d)
  <2>1. /\ op \notin ByteLoads /\ op \notin WordLoads /\ op \notin Exchanges /\ op \notin Blocks
        /\ op \notin Operations /\ op \notin Generals /\ op \notin Changes /\ op \notin Bits
        /\ op \notin Wides /\ op \notin Jumps /\ op \notin Calls \cup Returns /\ op \notin Ports
    BY <1>13 DEF ByteLoads, WordLoads, Exchanges, Blocks, Moving, Comparing, Receiving,
      Sending,
      Operations, Generals, Changes, OnBytes, Bits, Wides, Jumps, Calls, Returns, Ports,
      Controls
  <2>2. QED BY <1>13, <2>1 DEF simop
<1>14. QED BY <1>1, <1>2, <1>3, <1>4, <1>5, <1>6, <1>7, <1>8, <1>9, <1>10, <1>11, <1>12,
  <1>13

LEMMA InstructionKeeps ==
  ASSUME NEW z, IsProcessor(z), NEW d, WellDecoded(d), NEW any \in Byte
  PROVE  /\ IsProcessor(simop(z, d, any))
         /\ d.ins.op # "HALT" => simop(z, d, any).mode = z.mode
<1> DEFINE op == d.ins.op
<1>1. CASE op \in ByteLoads
  BY <1>1, FamilyExecutes, LoadByteKeeps DEF Like
<1>2. CASE op \in WordLoads
  BY <1>2, FamilyExecutes, LoadWordKeeps DEF Like
<1>3. CASE op \in Exchanges
  BY <1>3, FamilyExecutes, ExchangeKeeps DEF Like
<1>4. CASE op \in Blocks
  BY <1>4, FamilyExecutes, RoundKeeps DEF Like
<1>5. CASE op \in Operations
  BY <1>5, FamilyExecutes, AccumulatorKeeps DEF Like
<1>6. CASE op \in Generals
  BY <1>6, FamilyExecutes, GeneralKeeps DEF Like
<1>7. CASE op \in Changes
  BY <1>7, FamilyExecutes, OperandKeeps DEF Like
<1>8. CASE op \in Bits
  BY <1>8, FamilyExecutes, OneBitKeeps DEF Like
<1>9. CASE op \in Wides
  BY <1>9, FamilyExecutes, WideKeeps DEF Like
<1>10. CASE op \in Jumps
  BY <1>10, FamilyExecutes, JumpKeeps DEF Like
<1>11. CASE op \in Calls \cup Returns
  BY <1>11, FamilyExecutes, CallKeeps DEF Like
<1>12. CASE op \in Ports
  BY <1>12, FamilyExecutes, InOutKeeps DEF Like
<1>13. CASE op \in Controls
  BY <1>13, FamilyExecutes, ControlKeeps
<1>14. op \in Families
  BY DEF WellDecoded, Fits
<1>15. QED
  BY <1>1, <1>2, <1>3, <1>4, <1>5, <1>6, <1>7, <1>8, <1>9, <1>10, <1>11, <1>12, <1>13, <1>14
  DEF Families

LEMMA SimKeeps ==
  ASSUME NEW z, IsProcessor(z), Bounded(z), NEW any \in Byte
  PROVE  /\ IsProcessor(sim(z, any))
         /\ Accepts(z) \/ Decode(z.mem, z.pc).ins.op # "HALT" => sim(z, any).mode = z.mode
<1>1. CASE Accepts(z)
  <2> DEFINE w == [z EXCEPT !.iff1 = 0, !.iff2 = 0]
  <2>1. Like(w, z) /\ w.pc \in Word
    BY DEF Like, IsProcessor, Flag
  <2>2. sim(z, any) = IF z.im = 1 THEN To(Push(w, w.pc), 56) ELSE w
    BY <1>1 DEF sim
  <2> HIDE DEF w
  <2>3. Like(To(Push(w, w.pc), 56), z)
    BY <2>1, PushKeeps, ToKeeps
  <2>4. QED BY <2>1, <2>2, <2>3 DEF Like
<1>2. CASE ~Accepts(z)
  <2> DEFINE d == Decode(z.mem, z.pc)
             w == IF z.iff1 = 1 THEN [z EXCEPT !.iff2 = 1] ELSE z
  <2>1. sim(z, any) = simop(To(w, d.next), d, any)
    BY <1>2 DEF sim
  <2>2. WellDecoded(d)
    BY <1>2, DecodeFits DEF Bounded
  <2> HIDE DEF d
  <2>3. Like(w, z)
    BY DEF Like, IsProcessor, Flag
  <2> HIDE DEF w
  <2>4. Like(To(w, d.next), z)
    BY <2>2, <2>3, ToKeeps DEF WellDecoded
  <2>5. /\ IsProcessor(simop(To(w, d.next), d, any))
        /\ d.ins.op # "HALT" => simop(To(w, d.next), d, any).mode = To(w, d.next).mode
    BY <2>2, <2>4, InstructionKeeps DEF Like
  <2>6. QED BY <1>2, <2>1, <2>4, <2>5 DEF Like, d
<1>3. QED BY <1>1, <1>2

-------------------------------------------------------------------------------
(* The listing: an instruction is five bytes long at most. *)

LEMMA OperandLength ==
  ASSUME NEW n
  PROVE  MainOperand(n) \in 0..2 /\ CBOperand(n) = 0 /\ EDOperand(n) \in 0..2
<1>1. LowOperand(n) \in 0..2
  BY DEF LowOperand, Wide, Narrow, Printed
<1>2. HighOperand(n) \in 0..2
  BY DEF HighOperand, Wide, Narrow, Printed
<1>3. MainOperand(n) = LowOperand(n) \/ MainOperand(n) = HighOperand(n) \/ MainOperand(n) = 0
  BY DEF MainOperand, Printed
<1>4. QED BY <1>1, <1>2, <1>3 DEF CBOperand, EDOperand, Wide, Printed

LEMMA ListedLength ==
  ASSUME NEW mem, NEW pc \in Word
  PROVE  source(mem, pc) \in Listed
<1> DEFINE n == read(mem, pc)
           m == read(mem, pc + 1)
           k == read(mem, pc + 3)
<1>1. \/ source(mem, pc) = pc + 2 + CBOperand(m)
      \/ source(mem, pc) = pc + 2 + EDOperand(m)
      \/ source(mem, pc) = pc + 2
      \/ source(mem, pc) = pc + 3 + MainOperand(m)
      \/ source(mem, pc) = pc + 4 + CBOperand(k)
      \/ source(mem, pc) = pc + 2 + MainOperand(m)
      \/ source(mem, pc) = pc + 1 + MainOperand(n)
  BY DEF source
<1> HIDE DEF n, m, k
<1>2. /\ CBOperand(m) = 0 /\ CBOperand(k) = 0 /\ EDOperand(m) \in 0..2
      /\ MainOperand(m) \in 0..2 /\ MainOperand(n) \in 0..2
  BY OperandLength
<1>3. pc \in Int /\ 0 <= pc /\ pc <= 65535
  BY DEF Word
<1>4. PICK j \in 0..5 : source(mem, pc) = pc + j
  BY <1>1, <1>2, <1>3
<1>5. pc + j \in Listed
  BY <1>3 DEF Listed
<1>6. QED BY <1>4, <1>5

-------------------------------------------------------------------------------
(* The machine.  The inductive invariant adds to TypeOK where a breakpoint can be      *)
(* that nobody has set: at 0, where the last one went, or at FFFF, where it is at first. *)

BreakpointKnown == armed \/ bkpt \in {0, NoBreakpoint}

DebuggerInvariant == TypeOK /\ BreakpointKnown

LEMMA ListedWords == Word \subseteq Listed /\ 0 \in Word /\ NoBreakpoint \in Word
BY DEF Word, Listed, NoBreakpoint

LEMMA ModeSet ==
  ASSUME NEW z, IsProcessor(z), NEW m \in {"STOP", "RET", "RUN"}
  PROVE  IsProcessor([z EXCEPT !.mode = m])
BY DEF IsProcessor

LEMMA PollKeeps ==
  ASSUME NEW z, IsProcessor(z), NEW typed
  PROVE  Like(Poll(z, typed), z) /\ Poll(z, typed).mem = z.mem /\ Poll(z, typed).pc = z.pc
BY DEF Poll, Like, IsProcessor, Flag

LEMMA DebuggerInit == ASSUME Init PROVE DebuggerInvariant
<1>1. PICK s \in Starts : z80 = [s.cpu EXCEPT !.mode = IF s.debug THEN "STOP" ELSE "RUN"]
  BY DEF Init
<1>2. IsProcessor(s.cpu)
  BY DebuggerAssumption
<1>3. IsProcessor(z80)
  BY <1>1, <1>2, ModeSet
<1>4. keys \in 0..MaxKeys
  BY DebuggerAssumption DEF Init
<1>5. QED BY <1>3, <1>4, ListedWords DEF Init, DebuggerInvariant, TypeOK, BreakpointKnown

\* A key that lets the machine go on changes nothing of the processor but its mode.
LEMMA RunsKeeps ==
  ASSUME TypeOK, NEW m \in {"STOP", "RET", "RUN"}, NEW on \in BOOLEAN, Runs(m, on)
  PROVE  IsProcessor(z80') /\ breakon' \in BOOLEAN
BY ModeSet DEF TypeOK, Runs

LEMMA ExecutesKeeps ==
  ASSUME TypeOK, NEW any \in InByte, Executes(any)
  PROVE  IsProcessor(z80') /\ breakon' \in BOOLEAN
<1>1. any \in Byte
  BY DebuggerAssumption
<1>2. IsProcessor(z80) /\ Bounded(z80)
  BY DEF TypeOK, Executes
<1>3. IsProcessor(sim(z80, any))
  BY <1>1, <1>2, SimKeeps
<1>4. QED BY <1>3 DEF Executes

LEMMA ModeAfterIsMode ==
  ASSUME NEW z, IsProcessor(z), NEW at, NEW pressed
  PROVE  ModeAfter(z, at, pressed) \in {"STOP", "RET", "RUN"}
BY DEF ModeAfter, IsProcessor

LEMMA RunKeeps ==
  ASSUME DebuggerInvariant, NEW typed \in BOOLEAN, NEW pressed \in BOOLEAN, NEW any \in InByte,
         Run(typed, pressed, any)
  PROVE  DebuggerInvariant'
<1> DEFINE z == sim(Poll(z80, typed), any)
<1>1. any \in Byte /\ IsProcessor(z80)
  BY DebuggerAssumption DEF DebuggerInvariant, TypeOK
<1>2. IsProcessor(Poll(z80, typed)) /\ Bounded(Poll(z80, typed))
  BY <1>1, PollKeeps DEF Like, Run
<1>3. IsProcessor(z)
  BY <1>1, <1>2, SimKeeps
<1>4. /\ z80' = [z EXCEPT !.mode = ModeAfter(z, z80.pc, pressed)]
      /\ bkpt' = AfterHit(z.pc) /\ armed' = (armed /\ z.pc # bkpt)
  BY DEF Run
<1> HIDE DEF z
<1>5. IsProcessor(z80')
  BY <1>3, <1>4, ModeSet, ModeAfterIsMode
<1>6. bkpt' \in Listed /\ BreakpointKnown'
  BY <1>4, ListedWords DEF AfterHit, DebuggerInvariant, TypeOK, BreakpointKnown
<1>7. keys' \in 0..MaxKeys
  <2>1. keys \in 0..MaxKeys /\ MaxKeys \in Nat
    BY DebuggerAssumption DEF DebuggerInvariant, TypeOK
  <2>2. keys' = keys + Yes(typed) /\ (typed => keys < MaxKeys)
    BY DEF Run
  <2>3. QED BY <2>1, <2>2 DEF Yes
<1>8. /\ lastbkpt' = lastbkpt /\ retsp' = retsp /\ breakon' = breakon
      /\ armed' \in BOOLEAN /\ stepping' \in BOOLEAN
  BY <1>4 DEF Run, DebuggerInvariant, TypeOK
<1>9. QED
  BY <1>5, <1>6, <1>7, <1>8 DEF DebuggerInvariant, TypeOK

LEMMA CallStepKeeps ==
  ASSUME DebuggerInvariant, NEW any \in InByte, CallStep(any)
  PROVE  DebuggerInvariant'
<1>1. TypeOK /\ BreakpointKnown
  BY DEF DebuggerInvariant
<1>2. lastbkpt' = lastbkpt /\ retsp' = retsp /\ keys' = keys
  BY DEF CallStep
<1>3. CASE IsCall(z80.mem, z80.pc)
  <2>1. bkpt' = source(z80.mem, z80.pc) /\ armed' = TRUE /\ stepping' = TRUE
    BY <1>3 DEF CallStep
  <2>2. IsProcessor(z80') /\ breakon' \in BOOLEAN
    <3>1. Runs("RUN", TRUE)
      BY <1>3 DEF CallStep
    <3>2. QED BY <1>1, <3>1, RunsKeeps
  <2>3. bkpt' \in Listed
    BY <1>1, <2>1, ListedLength DEF TypeOK, IsProcessor
  <2>4. QED BY <1>1, <1>2, <2>1, <2>2, <2>3 DEF DebuggerInvariant, TypeOK, BreakpointKnown
<1>4. CASE ~IsCall(z80.mem, z80.pc)
  <2>1. /\ Executes(any)
        /\ bkpt' = bkpt /\ armed' = armed /\ stepping' = stepping
    BY <1>4 DEF CallStep
  <2>2. IsProcessor(z80') /\ breakon' \in BOOLEAN
    BY <1>1, <2>1, ExecutesKeeps
  <2>3. QED BY <1>1, <1>2, <2>1, <2>2 DEF DebuggerInvariant, TypeOK, BreakpointKnown
<1>5. QED BY <1>3, <1>4

LEMMA DebuggerNext == ASSUME DebuggerInvariant, [Next]_vars PROVE DebuggerInvariant'
<1>1. TypeOK /\ BreakpointKnown
  BY DEF DebuggerInvariant
<1>2. ASSUME NEW on \in BOOLEAN, Go(on) PROVE DebuggerInvariant'
  <2>1. IsProcessor(z80') /\ breakon' \in BOOLEAN
    BY <1>1, <1>2, RunsKeeps DEF Go
  <2>2. QED
    BY <1>1, <1>2, <2>1 DEF Go, history, DebuggerInvariant, TypeOK, BreakpointKnown
<1>3. ASSUME NEW a \in Typed, Breakpoint(a) PROVE DebuggerInvariant'
  <2>1. IsProcessor(z80') /\ breakon' \in BOOLEAN
    BY <1>1, <1>3, RunsKeeps DEF Breakpoint
  <2>2. a \in Listed
    BY DebuggerAssumption, ListedWords
  <2>3. QED
    BY <1>1, <1>3, <2>1, <2>2 DEF Breakpoint, DebuggerInvariant, TypeOK, BreakpointKnown
<1>4. CASE BreakpointAgain
  <2>1. IsProcessor(z80') /\ breakon' \in BOOLEAN
    BY <1>1, <1>4, RunsKeeps DEF BreakpointAgain
  <2>2. QED
    BY <1>1, <1>4, <2>1 DEF BreakpointAgain, DebuggerInvariant, TypeOK, BreakpointKnown
<1>5. CASE BreakpointUnread
  <2>1. IsProcessor(z80') /\ breakon' \in BOOLEAN
    BY <1>1, <1>5, RunsKeeps DEF BreakpointUnread
  <2>2. QED
    BY <1>1, <1>5, <2>1 DEF BreakpointUnread, history, DebuggerInvariant, TypeOK,
      BreakpointKnown
<1>6. ASSUME NEW any \in InByte, InstructionStep(any) PROVE DebuggerInvariant'
  <2>1. IsProcessor(z80') /\ breakon' \in BOOLEAN
    BY <1>1, <1>6, ExecutesKeeps DEF InstructionStep
  <2>2. QED
    BY <1>1, <1>6, <2>1 DEF InstructionStep, history, DebuggerInvariant, TypeOK,
      BreakpointKnown
<1>7. CASE UntilRet
  <2>1. IsProcessor(z80') /\ breakon' \in BOOLEAN
    BY <1>1, <1>7, RunsKeeps DEF UntilRet
  <2>2. retsp' \in Word
    BY <1>1, <1>7 DEF UntilRet, TypeOK, IsProcessor
  <2>3. QED
    BY <1>1, <1>7, <2>1, <2>2 DEF UntilRet, DebuggerInvariant, TypeOK, BreakpointKnown
<1>8. CASE Show
  BY <1>1, <1>8 DEF Show, history, DebuggerInvariant, TypeOK, BreakpointKnown
<1>9. CASE UNCHANGED vars
  BY <1>1, <1>9
  DEF vars, machine, commands, history, DebuggerInvariant, TypeOK, BreakpointKnown
<1>10. QED
  BY <1>2, <1>3, <1>4, <1>5, <1>6, <1>7, <1>8, <1>9, CallStepKeeps, RunKeeps DEF Next, Key,
    loop

\* An instruction leaves a processor that fits the registers' widths, whatever was
\* loaded and whatever the user does: TypeOK of Debugger.
THEOREM DebuggerTypeOK == Spec => []TypeOK
<1>1. Init => DebuggerInvariant
  BY DebuggerInit
<1>2. DebuggerInvariant /\ [Next]_vars => DebuggerInvariant'
  BY DebuggerNext
<1>3. DebuggerInvariant => TypeOK
  BY DEF DebuggerInvariant
<1>4. QED BY <1>1, <1>2, <1>3, PTL DEF Spec

-------------------------------------------------------------------------------
(* What stops the machine. *)

\* The opcodes that loop() looks for once X was pressed are returns in the processor's
\* table too.
LEMMA SeenReturn ==
  ASSUME IsProcessor(z80), NEW z, ReturnedAbove(z, z80.pc),
         read(z.mem, z80.pc) = read(z80.mem, z80.pc)
  PROVE  Op = "RET"
<1>1. read(z80.mem, z80.pc) \in Byte
  BY MemoryIsBytes
<1>2. read(z80.mem, z80.pc) = 201 \/ (read(z80.mem, z80.pc) >= 192 /\ read(z80.mem, z80.pc) % 8 = 0)
  BY DEF ReturnedAbove
<1>3. z80.pc \in Int
  BY BytesAreNumbers DEF IsProcessor
<1>4. QED BY <1>1, <1>2, <1>3, RetIsDecoded DEF Op, Decoded

LEMMA StopIsAskedFor ==
  ASSUME DebuggerInvariant, NEW typed \in BOOLEAN, NEW any \in InByte, Run(typed, FALSE, any),
         z80'.mode = "STOP"
  PROVE  \/ Op = "HALT"
         \/ z80'.pc = bkpt /\ (armed \/ bkpt \in {0, NoBreakpoint})
         \/ z80.mode = "RET" /\ (Op \in Returns \/ LoadedSP(z80, z80.pc))
         \/ z80.mode = "RET" /\ Overwritten
<1> DEFINE before == Poll(z80, typed)
           z == sim(before, any)
           at == z80.pc
<1>1. any \in Byte /\ IsProcessor(z80) /\ BreakpointKnown
  BY DebuggerAssumption DEF DebuggerInvariant, TypeOK
<1>2. /\ IsProcessor(before) /\ Bounded(before) /\ before.mode = z80.mode
      /\ before.mem = z80.mem /\ before.pc = z80.pc
  BY <1>1, PollKeeps DEF Like, Run
<1>3. IsProcessor(z) /\ (Op # "HALT" => z.mode = z80.mode)
  BY <1>1, <1>2, SimKeeps DEF Op, Decoded
<1>4. z80' = [z EXCEPT !.mode = ModeAfter(z, at, FALSE)] /\ z80.mode # "STOP"
  BY DEF Run, Stopped
<1> HIDE DEF z, before
<1>5. /\ ModeAfter(z, at, FALSE) = "STOP" /\ z80'.pc = z.pc /\ z80'.mem = z.mem
  BY <1>3, <1>4 DEF IsProcessor
<1>6. CASE z.pc = bkpt
  BY <1>1, <1>5, <1>6 DEF BreakpointKnown
<1>7. CASE z.pc # bkpt /\ Op # "HALT"
  <2>1. z.mode = z80.mode /\ z.mode # "STOP"
    BY <1>3, <1>4, <1>7
  <2>2. z80.mode = "RET" /\ (ReturnedAbove(z, at) \/ LoadedSP(z, at))
    BY <1>5, <1>7, <2>1 DEF ModeAfter, GoesOn
  <2>3. CASE \E k \in 0..1 : read(z.mem, at + k) # read(z80.mem, at + k)
    BY <1>5, <2>2, <2>3 DEF Overwritten
  <2>4. CASE \A k \in 0..1 : read(z.mem, at + k) = read(z80.mem, at + k)
    <3>1. at \in Int
      BY <1>1, BytesAreNumbers DEF IsProcessor
    <3>2. read(z.mem, at) = read(z80.mem, at) /\ read(z.mem, at + 1) = read(z80.mem, at + 1)
      <4>1. at + 0 = at /\ 0 \in 0..1 /\ 1 \in 0..1
        BY <3>1
      <4>2. QED BY <2>4, <4>1
    <3>3. ReturnedAbove(z, at) => Op \in Returns
      BY <1>1, <3>2, SeenReturn DEF Returns
    <3>4. LoadedSP(z, at) => LoadedSP(z80, z80.pc)
      BY <3>2 DEF LoadedSP
    <3>5. QED BY <2>2, <3>3, <3>4
  <2>5. QED BY <2>3, <2>4
<1>8. QED BY <1>6, <1>7

\* A machine that runs, with the button left alone, stops for a reason its user knows,
\* whatever program it runs: NoStopUnasked of Debugger.
THEOREM StopsAreAskedFor == Spec => NoStopUnasked
<1>1. Init => DebuggerInvariant
  BY DebuggerInit
<1>2. DebuggerInvariant /\ [Next]_vars => DebuggerInvariant'
  BY DebuggerNext
<1>3. DebuggerInvariant /\ [Next]_vars =>
        [ Ran /\ z80'.mode = "STOP" =>
            \/ Op = "HALT"
            \/ z80'.pc = bkpt /\ (armed \/ bkpt \in {0, NoBreakpoint})
            \/ z80.mode = "RET" /\ (Op \in Returns \/ LoadedSP(z80, z80.pc))
            \/ z80.mode = "RET" /\ Overwritten ]_vars
  BY StopIsAskedFor DEF Ran
<1>4. QED BY <1>1, <1>2, <1>3, PTL DEF Spec, NoStopUnasked

-------------------------------------------------------------------------------
(* How many bytes an instruction takes after its opcode. *)

Long == {"LD_R_ATw", "LD_ATw_R", "LD_RX_w", "LD_RX_ATw", "LD_ATw_RX", "JP", "CALL"}
Short == {"LD_R_b", "LD_ATRX_b", "JR", "DJNZ", "IN_R_ATb", "OUT_ATb_R"}

\* The operands that are read from the code, and whether an offset precedes them once
\* the instruction is on IX or IY.
Immediate(i) ==
  IF i.op \in Long THEN 2
  ELSE IF i.op \in Short \/ (i.op \in Operations /\ i.x = "n") THEN 1 ELSE 0
ByPointer(i) ==
  \/ i.op \in {"LD_R_ATRX", "LD_ATRX_R", "LD_ATRX_b"}
  \/ i.op \in Operations \cup {"INC", "DEC"} /\ i.x = "(HL)"

Takes(i, k, p) ==
  /\ Immediate(i) = k
  /\ ByPointer(i) <=> p
  /\ i.op \notin Blocks \cup {"RLD", "RRD"}

\* Operations whose operands are not in the code.
Silent ==
  {"LD_R_R", "LD_RX_RX", "PUSH_RX", "POP_RX", "RST", "JP_ATRX", "HALT", "NOP", "DI", "EI"}
  \cup Exchanges \cup (Generals \ {"RLD", "RRD"}) \cup Wides \cup Returns \cup OnBytes

LEMMA LongTakes ==
  ASSUME NEW op \in Long, NEW x, NEW y PROVE Takes(Instr(op, x, y), 2, FALSE)
BY DEF Takes, Instr, Immediate, ByPointer, Long, Operations, Blocks, Moving, Comparing,
  Receiving, Sending

LEMMA ShortTakes ==
  ASSUME NEW op \in Short, NEW x, NEW y PROVE Takes(Instr(op, x, y), 1, op = "LD_ATRX_b")
BY DEF Takes, Instr, Immediate, ByPointer, Long, Short, Operations, Blocks, Moving,
  Comparing, Receiving, Sending

LEMMA SilentTakes ==
  ASSUME NEW op \in Silent, NEW x, NEW y PROVE Takes(Instr(op, x, y), 0, FALSE)
BY DEF Takes, Instr, Immediate, ByPointer, Long, Short, Operations, Blocks, Moving,
  Comparing, Receiving, Sending, Silent, Exchanges, Generals, Wides, Returns, OnBytes

LEMMA PointerTakes ==
  ASSUME NEW op \in {"LD_R_ATRX", "LD_ATRX_R"}, NEW x, NEW y
  PROVE  Takes(Instr(op, x, y), 0, TRUE)
BY DEF Takes, Instr, Immediate, ByPointer, Long, Short, Operations, Blocks, Moving,
  Comparing, Receiving, Sending

LEMMA OperationTakes ==
  ASSUME NEW op \in Operations, NEW x, NEW y
  PROVE  Takes(Instr(op, x, y), IF x = "n" THEN 1 ELSE 0, x = "(HL)")
BY DEF Takes, Instr, Immediate, ByPointer, Long, Short, Operations, Blocks, Moving,
  Comparing, Receiving, Sending

LEMMA CountTakes ==
  ASSUME NEW op \in {"INC", "DEC"}, NEW x, NEW y
  PROVE  Takes(Instr(op, x, y), 0, x = "(HL)")
BY DEF Takes, Instr, Immediate, ByPointer, Long, Short, Operations, Blocks, Moving,
  Comparing, Receiving, Sending

LEMMA LowListed ==
  ASSUME NEW n \in 0..63
  PROVE  /\ Column(n) = 0 => MainOperand(n) = IF n < 16 THEN 0 ELSE 1
         /\ Column(n) = 1 => MainOperand(n) = IF Row(n) % 2 = 0 THEN 2 ELSE 0
         /\ Column(n) = 2 => MainOperand(n) = IF Row(n) < 4 THEN 0 ELSE 2
         /\ Column(n) \in {3, 4, 5, 7} => MainOperand(n) = 0
         /\ Column(n) = 6 => MainOperand(n) = 1
         /\ HasATRX(n) <=> \/ Column(n) = 2 /\ Row(n) < 4
                           \/ Column(n) \in {4, 5} /\ Row(n) = 6
                           \/ n = 54
<1>1. MainOperand(n) = LowOperand(n)
  BY DEF MainOperand
<1>2. /\ Column(n) = 0 => LowOperand(n) = IF n < 16 THEN 0 ELSE 1
      /\ Column(n) = 1 => LowOperand(n) = IF Row(n) % 2 = 0 THEN 2 ELSE 0
      /\ Column(n) = 2 => LowOperand(n) = IF Row(n) < 4 THEN 0 ELSE 2
      /\ Column(n) \in {3, 4, 5, 7} => LowOperand(n) = 0
      /\ Column(n) = 6 => LowOperand(n) = 1
  BY DEF LowOperand, Column, Row, Wide, Narrow, Printed
<1>3. HasATRX(n) <=> \/ Column(n) = 2 /\ Row(n) < 4
                     \/ Column(n) \in {4, 5} /\ Row(n) = 6
                     \/ n = 54
  BY DEF HasATRX, Column, Row
<1>4. QED BY <1>1, <1>2, <1>3

LEMMA LowLengths == ASSUME NEW n \in 0..63 PROVE Takes(Low(n), MainOperand(n), HasATRX(n))
<1>1. Row(n) \in 0..7 /\ Column(n) \in 0..7 /\ n \in 0..255
  BY DEF Row, Column
<1>2. Column(n) = 0 <=> n \in {0, 8, 16, 24} \/ (n >= 32 /\ Column(n) = 0)
  BY DEF Column
<1>3. n = 54 <=> Column(n) = 6 /\ Row(n) = 6
  BY DEF Column, Row
<1>4. CASE Column(n) = 0
  <2>1. HasATRX(n) = FALSE /\ MainOperand(n) = IF n < 16 THEN 0 ELSE 1
    BY <1>3, <1>4, LowListed DEF HasATRX
  <2>2. /\ Takes(Instr("NOP", "", ""), 0, FALSE) /\ Takes(Instr("EX_AF_AFP", "", ""), 0, FALSE)
    BY SilentTakes DEF Silent, Exchanges
  <2>3. /\ Takes(Instr("DJNZ", "", ""), 1, FALSE)
        /\ \A x : Takes(Instr("JR", x, ""), 1, FALSE)
    BY ShortTakes DEF Short
  <2>4. /\ n = 0 => Low(n) = Instr("NOP", "", "")
        /\ n = 8 => Low(n) = Instr("EX_AF_AFP", "", "")
        /\ n = 16 => Low(n) = Instr("DJNZ", "", "")
        /\ n = 24 => Low(n) = Instr("JR", "always", "")
        /\ n >= 32 => Low(n) = Instr("JR", CC(Row(n) - 4), "")
    BY <1>4, LowTable
  <2>5. n \in {0, 8} => Takes(Low(n), 0, FALSE)
    BY <2>2, <2>4
  <2>6. n \notin {0, 8} => Takes(Low(n), 1, FALSE)
    BY <1>2, <1>4, <2>3, <2>4
  <2>7. n \in {0, 8} <=> n < 16
    BY <1>2, <1>4
  <2>8. QED BY <2>1, <2>5, <2>6, <2>7
<1>5. CASE Column(n) = 1
  <2>1. HasATRX(n) = FALSE /\ MainOperand(n) = IF Row(n) % 2 = 0 THEN 2 ELSE 0
    BY <1>3, <1>5, LowListed DEF HasATRX
  <2>2. /\ Takes(Instr("LD_RX_w", Pair(n), ""), 2, FALSE)
        /\ Takes(Instr("ADD_RX_RX", "HL", Pair(n)), 0, FALSE)
    BY LongTakes, SilentTakes DEF Long, Silent, Wides
  <2>3. Low(n) = IF Row(n) % 2 = 0 THEN Instr("LD_RX_w", Pair(n), "")
                 ELSE Instr("ADD_RX_RX", "HL", Pair(n))
    BY <1>5, LowTable
  <2>4. CASE Row(n) % 2 = 0
    BY <2>1, <2>2, <2>3, <2>4
  <2>5. CASE Row(n) % 2 # 0
    BY <2>1, <2>2, <2>3, <2>5
  <2>6. QED BY <2>4, <2>5
<1>6. CASE Column(n) = 2
  <2>1. (HasATRX(n) <=> Row(n) < 4) /\ MainOperand(n) = IF Row(n) < 4 THEN 0 ELSE 2
    BY <1>3, <1>6, LowListed
  <2>2. \A x, y : /\ Takes(Instr("LD_ATRX_R", x, y), 0, TRUE)
                  /\ Takes(Instr("LD_R_ATRX", x, y), 0, TRUE)
    BY PointerTakes
  <2>3. \A x, y : /\ Takes(Instr("LD_ATw_RX", x, y), 2, FALSE)
                  /\ Takes(Instr("LD_RX_ATw", x, y), 2, FALSE)
                  /\ Takes(Instr("LD_ATw_R", x, y), 2, FALSE)
                  /\ Takes(Instr("LD_R_ATw", x, y), 2, FALSE)
    BY LongTakes DEF Long
  <2>4. CASE Row(n) < 4
    <3>1. HasATRX(n) = TRUE /\ MainOperand(n) = 0
      BY <2>1, <2>4 DEF HasATRX
    <3>2. Row(n) \in {0, 1, 2, 3}
      BY <1>1, <2>4
    <3>3. \E x, y : Low(n) \in {Instr("LD_ATRX_R", x, y), Instr("LD_R_ATRX", x, y)}
      <4>1. Low(n) \in {Instr("LD_ATRX_R", "(BC)", "A"), Instr("LD_R_ATRX", "A", "(BC)"),
                       Instr("LD_ATRX_R", "(DE)", "A"), Instr("LD_R_ATRX", "A", "(DE)")}
        BY <1>6, <3>2, LowTable
      <4>2. QED BY <4>1
    <3>4. QED BY <2>2, <3>1, <3>3
  <2>5. CASE ~(Row(n) < 4)
    <3>1. HasATRX(n) = FALSE /\ MainOperand(n) = 2
      BY <2>1, <2>5 DEF HasATRX
    <3>2. Row(n) \in {4, 5, 6, 7}
      BY <1>1, <2>5
    <3>3. Low(n) \in {Instr("LD_ATw_RX", "", "HL"), Instr("LD_RX_ATw", "HL", ""),
                     Instr("LD_ATw_R", "", "A"), Instr("LD_R_ATw", "A", "")}
      BY <1>6, <3>2, LowTable
    <3>4. QED BY <2>3, <3>1, <3>3
  <2>6. QED BY <2>4, <2>5
<1>7. CASE Column(n) \in {3, 7}
  <2>1. HasATRX(n) = FALSE /\ MainOperand(n) = 0
    BY <1>3, <1>7, LowListed DEF HasATRX
  <2>2. OnA[Row(n) + 1] \in Silent /\ {"INC_RX", "DEC_RX"} \subseteq Silent
    BY <1>1, OperandTables DEF Silent, Wides
  <2>3. Low(n) \in {Instr("INC_RX", Pair(n), ""), Instr("DEC_RX", Pair(n), ""),
                   Instr(OnA[Row(n) + 1], "", "")}
    BY <1>7, LowTable
  <2>4. /\ \A x : Takes(Instr("INC_RX", x, ""), 0, FALSE) /\ Takes(Instr("DEC_RX", x, ""), 0, FALSE)
        /\ Takes(Instr(OnA[Row(n) + 1], "", ""), 0, FALSE)
    BY <2>2, SilentTakes
  <2>5. QED BY <2>1, <2>3, <2>4
<1>8. CASE Column(n) \in {4, 5}
  <2>1. (HasATRX(n) <=> Row(n) = 6) /\ MainOperand(n) = 0
    BY <1>3, <1>8, LowListed
  <2>2. Low(n) \in {Instr("INC", R8(Row(n)), ""), Instr("DEC", R8(Row(n)), "")}
    BY <1>8, LowTable
  <2>3. Takes(Low(n), 0, R8(Row(n)) = "(HL)")
    <3>1. ASSUME NEW x
          PROVE  Takes(Instr("INC", x, ""), 0, x = "(HL)") /\ Takes(Instr("DEC", x, ""), 0, x = "(HL)")
      BY CountTakes
    <3>2. QED BY <2>2, <3>1
  <2>4. R8(Row(n)) = "(HL)" <=> Row(n) = 6
    BY <1>1 DEF R8
  <2>5. QED BY <2>1, <2>3, <2>4 DEF Takes
<1>9. CASE Column(n) = 6
  <2>1. (HasATRX(n) <=> n = 54) /\ MainOperand(n) = 1
    BY <1>9, LowListed
  <2>2. \A x : Takes(Instr("LD_ATRX_b", x, ""), 1, TRUE) /\ Takes(Instr("LD_R_b", x, ""), 1, FALSE)
    BY ShortTakes DEF Short
  <2>3. Low(n) = Instr(IF n = 54 THEN "LD_ATRX_b" ELSE "LD_R_b", R8(Row(n)), "")
    BY <1>9, LowTable
  <2>4. CASE n = 54
    BY <2>1, <2>2, <2>3, <2>4 DEF Takes
  <2>5. CASE n # 54
    BY <2>1, <2>2, <2>3, <2>5 DEF Takes
  <2>6. QED BY <2>4, <2>5
<1>10. QED BY <1>1, <1>4, <1>5, <1>6, <1>7, <1>8, <1>9

LEMMA MovesLengths == ASSUME NEW n \in 64..127 PROVE Takes(Moves(n), MainOperand(n), HasATRX(n))
<1>1. MainOperand(n) = 0
  BY DEF MainOperand, Printed
<1>2. HasATRX(n) <=> n # 118 /\ (Column(n) = 6 \/ Row(n) = 6)
  BY DEF HasATRX, Column, Row
<1>3. Row(n) = 6 /\ Column(n) = 6 => n = 118
  BY DEF Row, Column
<1>4. CASE n = 118
  <2>1. HasATRX(n) = FALSE
    BY <1>2, <1>4 DEF HasATRX
  <2>2. Moves(n) = Instr("HALT", "", "")
    BY <1>4 DEF Moves
  <2>3. Takes(Instr("HALT", "", ""), 0, FALSE)
    BY SilentTakes DEF Silent
  <2>4. QED BY <1>1, <2>1, <2>2, <2>3
<1>5. CASE n # 118 /\ (Column(n) = 6 \/ Row(n) = 6)
  <2>1. HasATRX(n) = TRUE
    BY <1>2, <1>5 DEF HasATRX
  <2>2. Column(n) = 6 => Moves(n) = Instr("LD_R_ATRX", R8(Row(n)), "(HL)")
    BY <1>3, <1>5 DEF Moves
  <2>3. Column(n) # 6 => Moves(n) = Instr("LD_ATRX_R", "(HL)", R8(Column(n)))
    BY <1>5 DEF Moves
  <2>4. \A x, y : Takes(Instr("LD_R_ATRX", x, y), 0, TRUE) /\ Takes(Instr("LD_ATRX_R", x, y), 0, TRUE)
    BY PointerTakes
  <2>5. QED BY <1>1, <2>1, <2>2, <2>3, <2>4
<1>6. CASE n # 118 /\ Column(n) # 6 /\ Row(n) # 6
  <2>1. HasATRX(n) = FALSE
    BY <1>2, <1>6 DEF HasATRX
  <2>2. Moves(n) = Instr("LD_R_R", R8(Row(n)), R8(Column(n)))
    BY <1>6 DEF Moves
  <2>3. \A x, y : Takes(Instr("LD_R_R", x, y), 0, FALSE)
    BY SilentTakes DEF Silent
  <2>4. QED BY <1>1, <2>1, <2>2, <2>3
<1>7. QED BY <1>4, <1>5, <1>6

LEMMA OperateLengths ==
  ASSUME NEW n \in 128..191 PROVE Takes(Operate(n), MainOperand(n), HasATRX(n))
<1>1. MainOperand(n) = 0
  BY DEF MainOperand, Printed
<1>2. HasATRX(n) <=> Column(n) = 6
  BY DEF HasATRX, Column
<1>3. Column(n) \in 0..7 /\ Row(n) \in 0..7
  BY DEF Column, Row
<1>4. R8(Column(n)) # "n" /\ (R8(Column(n)) = "(HL)" <=> Column(n) = 6)
  BY <1>3 DEF R8
<1>5. PICK op \in Operations : op = Arithmetic[Row(n) + 1]
  BY <1>3, OperandTables
<1>6. Takes(Instr(op, R8(Column(n)), ""),
            IF R8(Column(n)) = "n" THEN 1 ELSE 0, R8(Column(n)) = "(HL)")
  BY OperationTakes
<1>7. Operate(n) = Instr(op, R8(Column(n)), "")
  BY <1>5 DEF Operate
<1>8. QED BY <1>1, <1>2, <1>4, <1>6, <1>7 DEF Takes

\* Without the prefixes and the opcodes of the other tables.
LEMMA HighLengths ==
  ASSUME NEW n \in 192..255, n \notin {203, 221, 237, 253}
  PROVE  Takes(High(n), MainOperand(n), FALSE)
<1>1. Row(n) \in 0..7 /\ Column(n) \in {0, 1, 2, 3, 4, 5, 6, 7}
  BY DEF Row, Column
<1>2. MainOperand(n) = HighOperand(n)
  BY DEF MainOperand
<1>3. /\ Column(n) \in {2, 4} \/ n \in {195, 205} => HighOperand(n) = 2
      /\ Column(n) = 6 \/ n \in {211, 219} => HighOperand(n) = 1
      /\ Column(n) \in {0, 1, 3, 5, 7} /\ n \notin {195, 205, 211, 219} => HighOperand(n) = 0
  BY DEF HighOperand, Column, Wide, Narrow, Printed
<1> DEFINE Listed8 == Takes(High(n), HighOperand(n), FALSE)
<1>4. ASSUME Column(n) \in {0, 2, 4, 6, 7} PROVE Listed8
  <2>1. Plain(n)
    BY <1>4, SinglesAreOdd
  <2>2. CASE Column(n) = 0
    <3>1. High(n) = Instr("RET", CC(Row(n)), "") /\ HighOperand(n) = 0
      BY <1>3, <2>1, <2>2 DEF High, Plain
    <3>2. Takes(Instr("RET", CC(Row(n)), ""), 0, FALSE)
      BY SilentTakes DEF Silent, Returns
    <3>3. QED BY <3>1, <3>2
  <2>3. CASE Column(n) = 2
    <3>1. High(n) = Instr("JP", CC(Row(n)), "")
      BY <2>1, <2>3 DEF High, Plain
    <3>2. Takes(Instr("JP", CC(Row(n)), ""), 2, FALSE)
      BY LongTakes DEF Long
    <3>3. QED BY <1>3, <2>3, <3>1, <3>2
  <2>4. CASE Column(n) = 4
    <3>1. High(n) = Instr("CALL", CC(Row(n)), "")
      BY <2>1, <2>4 DEF High, Plain
    <3>2. Takes(Instr("CALL", CC(Row(n)), ""), 2, FALSE)
      BY LongTakes DEF Long
    <3>3. QED BY <1>3, <2>4, <3>1, <3>2
  <2>5. CASE Column(n) = 6
    <3>1. High(n) = Instr(Arithmetic[Row(n) + 1], "n", "")
      BY <2>1, <2>5 DEF High, Plain
    <3>2. PICK op \in Operations : op = Arithmetic[Row(n) + 1]
      BY <1>1, OperandTables
    <3>3. Takes(Instr(op, "n", ""), 1, FALSE)
      BY OperationTakes
    <3>4. QED BY <1>3, <2>5, <3>1, <3>2, <3>3
  <2>6. CASE Column(n) = 7
    <3>1. High(n) = Instr("RST", 8 * Row(n), "")
      BY <2>1, <2>6 DEF High, Plain
    <3>2. Takes(Instr("RST", 8 * Row(n), ""), 0, FALSE)
      BY SilentTakes DEF Silent
    <3>3. HighOperand(n) = 0
      <4>1. n \notin {195, 205, 211, 219}
        BY <2>1 DEF Plain
      <4>2. QED BY <1>3, <2>6, <4>1
    <3>4. QED BY <3>1, <3>2, <3>3
  <2>7. QED BY <1>4, <2>2, <2>3, <2>4, <2>5, <2>6
<1>5. ASSUME ~Plain(n) PROVE Listed8
  <2>1. n \in {195, 201, 205, 211, 217, 219, 227, 233, 235, 243, 249, 251}
    BY <1>5 DEF Plain
  <2>2. "JP" \in Long /\ "CALL" \in Long /\ "OUT_ATb_R" \in Short /\ "IN_R_ATb" \in Short
    BY DEF Long, Short
  <2>3. /\ "RET" \in Silent /\ "EXX" \in Silent /\ "EX_ATRX_RX" \in Silent
        /\ "JP_ATRX" \in Silent /\ "EX_RX_RX" \in Silent /\ "DI" \in Silent
        /\ "LD_RX_RX" \in Silent /\ "EI" \in Silent
    BY DEF Silent, Exchanges, Returns
  <2>4. CASE n = 195
    <3>1. High(n) = Instr("JP", "always", "")
      BY <2>4 DEF High, Column, Row
    <3>2. HighOperand(n) = 2
      BY <2>4 DEF HighOperand, Wide, Narrow, Printed
    <3>3. Takes(Instr("JP", "always", ""), 2, FALSE)
      BY <2>2, LongTakes
    <3>4. QED BY <3>1, <3>2, <3>3
  <2>5. CASE n = 201
    <3>1. High(n) = Instr("RET", "always", "")
      BY <2>5 DEF High, Column, Row
    <3>2. HighOperand(n) = 0
      BY <2>5 DEF HighOperand, Wide, Narrow, Printed
    <3>3. Takes(Instr("RET", "always", ""), 0, FALSE)
      BY <2>3, SilentTakes
    <3>4. QED BY <3>1, <3>2, <3>3
  <2>6. CASE n = 205
    <3>1. High(n) = Instr("CALL", "always", "")
      BY <2>6 DEF High, Column, Row
    <3>2. HighOperand(n) = 2
      BY <2>6 DEF HighOperand, Wide, Narrow, Printed
    <3>3. Takes(Instr("CALL", "always", ""), 2, FALSE)
      BY <2>2, LongTakes
    <3>4. QED BY <3>1, <3>2, <3>3
  <2>7. CASE n = 211
    <3>1. High(n) = Instr("OUT_ATb_R", "", "A")
      BY <2>7 DEF High, Column, Row
    <3>2. HighOperand(n) = 1
      BY <2>7 DEF HighOperand, Wide, Narrow, Printed
    <3>3. Takes(Instr("OUT_ATb_R", "", "A"), 1, FALSE)
      BY <2>2, ShortTakes
    <3>4. QED BY <3>1, <3>2, <3>3
  <2>8. CASE n = 217
    <3>1. High(n) = Instr("EXX", "", "")
      BY <2>8 DEF High, Column, Row
    <3>2. HighOperand(n) = 0
      BY <2>8 DEF HighOperand, Wide, Narrow, Printed
    <3>3. Takes(Instr("EXX", "", ""), 0, FALSE)
      BY <2>3, SilentTakes
    <3>4. QED BY <3>1, <3>2, <3>3
  <2>9. CASE n = 219
    <3>1. High(n) = Instr("IN_R_ATb", "A", "")
      BY <2>9 DEF High, Column, Row
    <3>2. HighOperand(n) = 1
      BY <2>9 DEF HighOperand, Wide, Narrow, Printed
    <3>3. Takes(Instr("IN_R_ATb", "A", ""), 1, FALSE)
      BY <2>2, ShortTakes
    <3>4. QED BY <3>1, <3>2, <3>3
  <2>10. CASE n = 227
    <3>1. High(n) = Instr("EX_ATRX_RX", "", "")
      BY <2>10 DEF High, Column, Row
    <3>2. HighOperand(n) = 0
      BY <2>10 DEF HighOperand, Wide, Narrow, Printed
    <3>3. Takes(Instr("EX_ATRX_RX", "", ""), 0, FALSE)
      BY <2>3, SilentTakes
    <3>4. QED BY <3>1, <3>2, <3>3
  <2>11. CASE n = 233
    <3>1. High(n) = Instr("JP_ATRX", "", "")
      BY <2>11 DEF High, Column, Row
    <3>2. HighOperand(n) = 0
      BY <2>11 DEF HighOperand, Wide, Narrow, Printed
    <3>3. Takes(Instr("JP_ATRX", "", ""), 0, FALSE)
      BY <2>3, SilentTakes
    <3>4. QED BY <3>1, <3>2, <3>3
  <2>12. CASE n = 235
    <3>1. High(n) = Instr("EX_RX_RX", "", "")
      BY <2>12 DEF High, Column, Row
    <3>2. HighOperand(n) = 0
      BY <2>12 DEF HighOperand, Wide, Narrow, Printed
    <3>3. Takes(Instr("EX_RX_RX", "", ""), 0, FALSE)
      BY <2>3, SilentTakes
    <3>4. QED BY <3>1, <3>2, <3>3
  <2>13. CASE n = 243
    <3>1. High(n) = Instr("DI", "", "")
      BY <2>13 DEF High, Column, Row
    <3>2. HighOperand(n) = 0
      BY <2>13 DEF HighOperand, Wide, Narrow, Printed
    <3>3. Takes(Instr("DI", "", ""), 0, FALSE)
      BY <2>3, SilentTakes
    <3>4. QED BY <3>1, <3>2, <3>3
  <2>14. CASE n = 249
    <3>1. High(n) = Instr("LD_RX_RX", "SP", "HL")
      BY <2>14 DEF High, Column, Row
    <3>2. HighOperand(n) = 0
      BY <2>14 DEF HighOperand, Wide, Narrow, Printed
    <3>3. Takes(Instr("LD_RX_RX", "SP", "HL"), 0, FALSE)
      BY <2>3, SilentTakes
    <3>4. QED BY <3>1, <3>2, <3>3
  <2>15. CASE n = 251
    <3>1. High(n) = Instr("EI", "", "")
      BY <2>15 DEF High, Column, Row
    <3>2. HighOperand(n) = 0
      BY <2>15 DEF HighOperand, Wide, Narrow, Printed
    <3>3. Takes(Instr("EI", "", ""), 0, FALSE)
      BY <2>3, SilentTakes
    <3>4. QED BY <3>1, <3>2, <3>3
  <2> HIDE DEF Listed8
  <2>20. QED BY <2>1, <2>4, <2>5, <2>6, <2>7, <2>8, <2>9, <2>10,
             <2>11, <2>12, <2>13, <2>14, <2>15
<1>6. ASSUME Column(n) \in {1, 3, 5}, Plain(n) PROVE Listed8
  <2>1. Row(n) % 2 = 0 /\ Column(n) # 3 /\ Plain(n) /\ Row(n) \in Int
    BY <1>1, <1>6, SinglesAreOdd
  <2>2. "POP_RX" \in Silent /\ "PUSH_RX" \in Silent
    BY DEF Silent
  <2>3. HighOperand(n) = 0
    <3>1. n \notin {195, 205, 211, 219}
      BY <2>1 DEF Plain
    <3>2. QED BY <1>3, <1>6, <3>1
  <2>4. CASE Column(n) = 1
    <3> DEFINE x == IF n = 241 THEN "AF" ELSE Pair(n)
    <3>1. High(n) = Instr("POP_RX", x, "")
      BY <2>1, <2>4 DEF High, Plain
    <3> HIDE DEF x
    <3>2. Takes(Instr("POP_RX", x, ""), 0, FALSE)
      BY <2>2, SilentTakes
    <3>3. QED BY <2>3, <3>1, <3>2
  <2>5. CASE Column(n) = 5
    <3> DEFINE x == IF n = 245 THEN "AF" ELSE Pair(n)
    <3>1. High(n) = Instr("PUSH_RX", x, "")
      BY <2>1, <2>5 DEF High, Plain
    <3> HIDE DEF x
    <3>2. Takes(Instr("PUSH_RX", x, ""), 0, FALSE)
      BY <2>2, SilentTakes
    <3>3. QED BY <2>3, <3>1, <3>2
  <2>6. QED BY <1>6, <2>1, <2>4, <2>5
<1> HIDE DEF Listed8
<1>7. Listed8
  BY <1>1, <1>4, <1>5, <1>6
<1>8. QED BY <1>2, <1>7 DEF Listed8

LEMMA ByteLengths == ASSUME NEW n \in 0..255 PROVE Immediate(sInstrCB(n)) = 0 /\ sInstrCB(n).op \in OnBytes
<1>1. Row(n) \in {0, 1, 2, 3, 4, 5, 6, 7}
  BY DEF Row
<1>2. CASE n < 64
  <2>1. PICK op \in OnBytes : op = <<"RLC", "RRC", "RL", "RR", "SLA", "SRA", "SLL", "SRL">>[Row(n) + 1]
    BY <1>1 DEF OnBytes
  <2>2. sInstrCB(n) = Instr(op, R8(Column(n)), "")
    BY <1>2, <2>1 DEF sInstrCB, Rotation
  <2>3. Takes(Instr(op, R8(Column(n)), ""), 0, FALSE)
    BY SilentTakes DEF Silent
  <2>4. Instr(op, R8(Column(n)), "").op = op
    BY DEF Instr
  <2>5. QED BY <2>2, <2>3, <2>4 DEF Takes
<1>3. CASE n >= 64
  <2>1. n \div 64 \in {1, 2, 3}
    BY <1>3
  <2>2. PICK op \in OnBytes : op = <<"BIT", "RES", "SET">>[n \div 64]
    BY <2>1 DEF OnBytes
  <2>3. sInstrCB(n) = Instr(op, Row(n), R8(Column(n)))
    BY <1>3, <2>2 DEF sInstrCB, OnBit
  <2>4. Takes(Instr(op, Row(n), R8(Column(n))), 0, FALSE)
    BY SilentTakes DEF Silent
  <2>5. Instr(op, Row(n), R8(Column(n))).op = op
    BY DEF Instr
  <2>6. QED BY <2>3, <2>4, <2>5 DEF Takes
<1>4. QED BY <1>2, <1>3

\* Operations of the table ED whose operands are not in the code.
Quiet == {"IN_R_ATR", "OUT_ATR_R", "ADC_RX_RX", "SBC_RX_RX", "HALT", "NEG", "RETN", "RETI", "IM",
          "LD_R_R", "LDS_A_R", "RRD", "RLD", "Z80EXT"} \cup Blocks

LEMMA QuietTakes == ASSUME NEW i, i.op \in Quiet PROVE Immediate(i) = 0
BY DEF Quiet, Immediate, Long, Short, Operations, Blocks, Moving, Comparing, Receiving,
  Sending

LEMMA QuietEntry == ASSUME NEW op \in Quiet, NEW x, NEW y PROVE Instr(op, x, y).op \in Quiet
BY DEF Instr

LEMMA UndefinedQuiet == Undefined.op \in Quiet
BY DEF Undefined, Instr, Quiet

LEMMA ExtendedLengths == ASSUME NEW n \in 64..127 PROVE Immediate(Extended(n)) = EDOperand(n)
<1>1. Row(n) \in 0..7 /\ Row(n) \in Int /\ Column(n) \in {0, 1, 2, 3, 4, 5, 6, 7}
  BY DEF Row, Column
<1>2. n \in {67, 83, 115, 75, 91, 123} <=> Column(n) = 3 /\ Pair(n) # "HL"
  <2>1. n \in {67, 83, 115, 75, 91, 123} <=> Column(n) = 3 /\ (n \div 16) % 4 # 2
    BY DEF Column
  <2>2. (n \div 16) % 4 \in {0, 1, 2, 3}
    OBVIOUS
  <2>3. Pair(n) = "HL" <=> (n \div 16) % 4 = 2
    BY <2>2 DEF Pair, RX
  <2>4. QED BY <2>1, <2>3
<1>3. CASE Column(n) = 3 /\ Pair(n) # "HL"
  <2>1. PlainED(n)
    BY <1>3, PlainIsLeft
  <2>2. Extended(n) = IF Row(n) % 2 = 1 THEN Instr("LD_RX_ATw", Pair(n), "")
                      ELSE Instr("LD_ATw_RX", "", Pair(n))
    BY <1>1, <1>3, <2>1 DEF Extended, PlainED
  <2>3. Immediate(Instr("LD_RX_ATw", Pair(n), "")) = 2 /\ Immediate(Instr("LD_ATw_RX", "", Pair(n))) = 2
    BY LongTakes DEF Long, Takes
  <2>4. EDOperand(n) = 2
    BY <1>2, <1>3 DEF EDOperand, Wide
  <2>5. QED BY <2>2, <2>3, <2>4
<1>4. ASSUME Column(n) \in {0, 1, 2, 3}, ~(Column(n) = 3 /\ Pair(n) # "HL")
      PROVE  Extended(n).op \in Quiet
  <2>1. PlainED(n)
    BY <1>4, PlainIsLeft
  <2>2. CASE Column(n) = 0 /\ Row(n) # 6
    <3>1. Extended(n) = Instr("IN_R_ATR", R8(Row(n)), "C")
      BY <2>1, <2>2 DEF Extended, PlainED
    <3>2. "IN_R_ATR" \in Quiet
      BY DEF Quiet
    <3>3. QED BY <3>1, <3>2, QuietEntry
  <2>3. CASE Column(n) = 1 /\ Row(n) # 6
    <3>1. Extended(n) = Instr("OUT_ATR_R", "C", R8(Row(n)))
      BY <2>1, <2>3 DEF Extended, PlainED
    <3>2. "OUT_ATR_R" \in Quiet
      BY DEF Quiet
    <3>3. QED BY <3>1, <3>2, QuietEntry
  <2>4. CASE Column(n) \in {0, 1} /\ Row(n) = 6
    <3>1. n \in {112, 113}
      BY <2>4 DEF Column, Row
    <3>2. CASE n = 112
      <4>1. Extended(n) = Undefined
        BY <3>2 DEF Extended, Column, Row
      <4>2. QED BY <4>1, UndefinedQuiet
    <3>3. CASE n = 113
      <4>1. Extended(n) = Undefined
        BY <3>3 DEF Extended, Column, Row
      <4>2. QED BY <4>1, UndefinedQuiet
    <3>4. QED BY <3>1, <3>2, <3>3
  <2>5. CASE Column(n) = 2
    <3>1. Extended(n) = Instr(IF Row(n) % 2 = 1 THEN "ADC_RX_RX" ELSE "SBC_RX_RX", "HL", Pair(n))
      BY <1>1, <2>1, <2>5 DEF Extended, PlainED
    <3>2. "ADC_RX_RX" \in Quiet /\ "SBC_RX_RX" \in Quiet
      BY DEF Quiet
    <3>3. QED BY <3>1, <3>2, QuietEntry
  <2>6. CASE Column(n) = 3 /\ Pair(n) = "HL"
    <3>1. Extended(n) = Undefined
      BY <2>1, <2>6 DEF Extended, PlainED
    <3>2. QED BY <3>1, UndefinedQuiet
  <2>7. QED BY <1>4, <2>2, <2>3, <2>4, <2>5, <2>6
<1>5. ASSUME ~PlainED(n) PROVE Extended(n).op \in Quiet
  <2>1. n \in {68, 69, 70, 71, 77, 79, 86, 87, 94, 95, 103, 111}
    BY <1>5 DEF PlainED
  <2>2. CASE n = 68
    <3>1. Extended(n) = Instr("NEG", "", "")
      BY <2>2 DEF Extended, Column, Row
    <3>2. "NEG" \in Quiet
      BY DEF Quiet
    <3>3. QED BY <3>1, <3>2, QuietEntry
  <2>3. CASE n = 69
    <3>1. Extended(n) = Instr("RETN", "", "")
      BY <2>3 DEF Extended, Column, Row
    <3>2. "RETN" \in Quiet
      BY DEF Quiet
    <3>3. QED BY <3>1, <3>2, QuietEntry
  <2>4. CASE n = 70
    <3>1. Extended(n) = Instr("IM", 0, "")
      BY <2>4 DEF Extended, Column, Row
    <3>2. "IM" \in Quiet
      BY DEF Quiet
    <3>3. QED BY <3>1, <3>2, QuietEntry
  <2>5. CASE n = 71
    <3>1. Extended(n) = Instr("LD_R_R", "I", "A")
      BY <2>5 DEF Extended, Column, Row
    <3>2. "LD_R_R" \in Quiet
      BY DEF Quiet
    <3>3. QED BY <3>1, <3>2, QuietEntry
  <2>6. CASE n = 77
    <3>1. Extended(n) = Instr("RETI", "", "")
      BY <2>6 DEF Extended, Column, Row
    <3>2. "RETI" \in Quiet
      BY DEF Quiet
    <3>3. QED BY <3>1, <3>2, QuietEntry
  <2>7. CASE n = 79
    <3>1. Extended(n) = Instr("LD_R_R", "R", "A")
      BY <2>7 DEF Extended, Column, Row
    <3>2. "LD_R_R" \in Quiet
      BY DEF Quiet
    <3>3. QED BY <3>1, <3>2, QuietEntry
  <2>8. CASE n = 86
    <3>1. Extended(n) = Instr("IM", 1, "")
      BY <2>8 DEF Extended, Column, Row
    <3>2. "IM" \in Quiet
      BY DEF Quiet
    <3>3. QED BY <3>1, <3>2, QuietEntry
  <2>9. CASE n = 87
    <3>1. Extended(n) = Instr("LDS_A_R", "A", "I")
      BY <2>9 DEF Extended, Column, Row
    <3>2. "LDS_A_R" \in Quiet
      BY DEF Quiet
    <3>3. QED BY <3>1, <3>2, QuietEntry
  <2>10. CASE n = 94
    <3>1. Extended(n) = Instr("IM", 2, "")
      BY <2>10 DEF Extended, Column, Row
    <3>2. "IM" \in Quiet
      BY DEF Quiet
    <3>3. QED BY <3>1, <3>2, QuietEntry
  <2>11. CASE n = 95
    <3>1. Extended(n) = Instr("LDS_A_R", "A", "R")
      BY <2>11 DEF Extended, Column, Row
    <3>2. "LDS_A_R" \in Quiet
      BY DEF Quiet
    <3>3. QED BY <3>1, <3>2, QuietEntry
  <2>12. CASE n = 103
    <3>1. Extended(n) = Instr("RRD", "", "")
      BY <2>12 DEF Extended, Column, Row
    <3>2. "RRD" \in Quiet
      BY DEF Quiet
    <3>3. QED BY <3>1, <3>2, QuietEntry
  <2>13. CASE n = 111
    <3>1. Extended(n) = Instr("RLD", "", "")
      BY <2>13 DEF Extended, Column, Row
    <3>2. "RLD" \in Quiet
      BY DEF Quiet
    <3>3. QED BY <3>1, <3>2, QuietEntry
  <2>14. QED BY <2>1, <2>2, <2>3, <2>4, <2>5, <2>6, <2>7, <2>8, <2>9, <2>10, <2>11, <2>12,
    <2>13
<1>6. ASSUME Column(n) \in {4, 5, 6, 7}, PlainED(n) PROVE Extended(n).op \in Quiet
  <2>1. Column(n) # 0 /\ Column(n) # 1 /\ Column(n) # 2 /\ Column(n) # 3
    BY <1>6
  <2>2. Extended(n) = Undefined
    BY <1>6, <2>1 DEF Extended, PlainED
  <2>3. QED BY <2>2, UndefinedQuiet
<1>7. CASE ~(Column(n) = 3 /\ Pair(n) # "HL")
  <2>1. Extended(n).op \in Quiet
    BY <1>1, <1>4, <1>5, <1>6, <1>7
  <2>2. EDOperand(n) = 0
    BY <1>2, <1>7 DEF EDOperand, Printed
  <2>3. QED BY <2>1, <2>2, QuietTakes
<1>8. QED BY <1>3, <1>7

LEMMA BlockQuiet == ASSUME NEW n \in 128..191 PROVE Block(n).op \in Quiet
<1>1. \A op \in Blocks : Instr(op, "", "").op \in Quiet
  BY QuietEntry DEF Quiet
<1>2. QED BY <1>1, BlockTable, UndefinedQuiet DEF BlockEntries

LEMMA EDLengths == ASSUME NEW n \in Byte PROVE Immediate(sInstrED(n)) = EDOperand(n)
<1>1. n \in 0..255
  BY DEF Byte
<1>2. CASE n >= 64 /\ n < 128
  <2>1. ~(n >= 128 /\ n < 192) /\ ~(n \in (32..63) \cup (240..255))
    BY <1>1, <1>2
  <2>2. sInstrED(n) = Extended(n)
    BY <1>2, <2>1 DEF sInstrED
  <2>3. QED BY <1>1, <1>2, <2>2, ExtendedLengths
<1>3. CASE ~(n >= 64 /\ n < 128)
  <2>1. EDOperand(n) = 0
    BY <1>3 DEF EDOperand, Printed
  <2>2. sInstrED(n).op \in Quiet
    <3>1. CASE n >= 128 /\ n < 192
      <4>1. ~(n >= 64 /\ n < 128) /\ ~(n \in (32..63) \cup (240..255))
        BY <1>1, <3>1
      <4>2. sInstrED(n) = Block(n)
        BY <3>1, <4>1 DEF sInstrED
      <4>5. n \in 128..191
        BY <1>1, <3>1
      <4>3. Block(n).op \in Quiet
        BY <4>5, BlockQuiet
      <4>4. QED BY <4>2, <4>3
    <3>2. CASE n \in (32..63) \cup (240..255)
      <4>1. ~(n >= 64 /\ n < 128) /\ ~(n >= 128 /\ n < 192)
        BY <1>1, <3>2
      <4>2. sInstrED(n) = Instr("Z80EXT", "", "")
        BY <3>2, <4>1 DEF sInstrED
      <4>3. "Z80EXT" \in Quiet
        BY DEF Quiet
      <4>4. QED BY <4>2, <4>3, QuietEntry
    <3>3. CASE ~(n >= 128 /\ n < 192) /\ ~(n \in (32..63) \cup (240..255))
      <4>1. sInstrED(n) = Undefined
        BY <1>3, <3>3 DEF sInstrED
      <4>2. QED BY <4>1, UndefinedQuiet
    <3>4. QED BY <3>1, <3>2, <3>3
  <2>3. QED BY <2>1, <2>2, QuietTakes
<1>4. QED BY <1>2, <1>3

LEMMA MainLengths ==
  ASSUME NEW n \in Byte, n \notin {203, 221, 237, 253}
  PROVE  Takes(sInstr(n), MainOperand(n), HasATRX(n) /\ n \notin {227, 233})
<1>1. n \in 0..255
  BY DEF Byte
<1> DEFINE p == HasATRX(n) /\ n \notin {227, 233}
<1>2. n < 192 => n \notin {227, 233}
  OBVIOUS
<1>3. n >= 192 => ~p
  <2>1. n >= 192 => ~(HasATRX(n) /\ n \notin {227, 233})
    BY <1>1 DEF HasATRX
  <2>2. QED BY <2>1
<1>5. CASE n < 64
  <2>1. Takes(Low(n), MainOperand(n), HasATRX(n))
    BY <1>1, <1>5, LowLengths
  <2>2. sInstr(n) = Low(n)
    BY <1>1, <1>5 DEF sInstr
  <2>3. HasATRX(n) <=> p
    BY <1>1, <1>2, <1>5
  <2>4. QED BY <2>1, <2>2, <2>3 DEF Takes
<1>6. CASE n >= 64 /\ n < 128
  <2>1. Takes(Moves(n), MainOperand(n), HasATRX(n))
    BY <1>1, <1>6, MovesLengths
  <2>2. sInstr(n) = Moves(n)
    BY <1>1, <1>6 DEF sInstr
  <2>3. HasATRX(n) <=> p
    BY <1>1, <1>2, <1>6
  <2>4. QED BY <2>1, <2>2, <2>3 DEF Takes
<1>7. CASE n >= 128 /\ n < 192
  <2>1. Takes(Operate(n), MainOperand(n), HasATRX(n))
    BY <1>1, <1>7, OperateLengths
  <2>2. sInstr(n) = Operate(n)
    BY <1>1, <1>7 DEF sInstr
  <2>3. HasATRX(n) <=> p
    BY <1>1, <1>2, <1>7
  <2>4. QED BY <2>1, <2>2, <2>3 DEF Takes
<1>8. CASE n >= 192
  <2>1. Takes(High(n), MainOperand(n), FALSE)
    <3>1. n \in 192..255
      BY <1>1, <1>8
    <3>2. QED BY <3>1, HighLengths
  <2>2. sInstr(n) = High(n)
    BY <1>1, <1>8 DEF sInstr
  <2>3. QED BY <1>3, <1>8, <2>1, <2>2 DEF Takes
<1>9. QED BY <1>1, <1>5, <1>6, <1>7, <1>8

\* There is one way only to count the prefixes.
LEMMA PrefixesAre ==
  ASSUME NEW mem, NEW pc, NEW k \in 0..MaxPrefixes, Prefixed(mem, pc, k)
  PROVE  Prefixes(mem, pc) = k
<1>1. ASSUME NEW i \in 0..MaxPrefixes, NEW j \in 0..MaxPrefixes, i < j,
             Prefixed(mem, pc, i), Prefixed(mem, pc, j)
      PROVE  FALSE
  <2>1. i \in 0..(j - 1)
    BY <1>1, PrefixAssumption
  <2>2. QED BY <1>1, <2>1 DEF Prefixed
<1> DEFINE n == Prefixes(mem, pc)
<1>2. n \in 0..MaxPrefixes /\ Prefixed(mem, pc, n)
  BY PrefixesAreFound DEF FewPrefixes
<1> HIDE DEF n
<1>3. ~(n < k) /\ ~(k < n)
  BY <1>1, <1>2
<1>4. n \in Int /\ k \in Int
  BY <1>2, PrefixAssumption
<1>5. n = k
  BY <1>3, <1>4
<1>6. QED BY <1>5 DEF n

\* What is decoded at pc, where the opcode after n prefixes is at at.
DecodedAs(mem, pc, n, at) ==
  LET d == Decode(mem, pc)
      b == read(mem, at)
  IN  /\ d.named = "HL" <=> n = 0
      /\ d.pointed = "HL" <=> n = 0
      /\ b = 203 /\ n = 0 => d.ins = sInstrCB(read(mem, at + 1)) /\ d.next = (at + 2) % 65536
      /\ b = 203 /\ n # 0 => d.ins = sInstrCB(read(mem, at + 2)) /\ d.next = (at + 3) % 65536
      /\ b = 237 => d.ins = sInstrED(read(mem, at + 1)) /\ d.next = (at + 2) % 65536
      /\ b \notin {203, 237} => d.ins = sInstr(b) /\ d.next = (at + 1) % 65536

LEMMA DecodedAt ==
  ASSUME NEW z, IsProcessor(z), NEW n \in Nat, n = Prefixes(z.mem, z.pc),
         NEW at, at = z.pc + n, read(z.mem, at) \notin {221, 253}
  PROVE  DecodedAs(z.mem, z.pc, n, at)
<1> DEFINE mem == z.mem
           named == IF n = 0 THEN "HL"
                    ELSE IF \E j \in 0..(n - 1) : read(mem, z.pc + j) = 221 THEN "IX" ELSE "IY"
           pointed == IF n = 0 THEN "HL" ELSE IF read(mem, at - 1) = 221 THEN "IX" ELSE "IY"
           D(ins, disp, next) == [ins |-> ins, disp |-> disp, next |-> next % 65536,
                                  named |-> named, pointed |-> pointed]
           b == read(mem, at)
           main == sInstr(b)
           d == Decode(mem, z.pc)
<1>1. (named = "HL" <=> n = 0) /\ (pointed = "HL" <=> n = 0)
  OBVIOUS
<1>2. b \in Byte
  BY MemoryIsBytes
<1>3. /\ b = 203 => main.op = "CB"
      /\ b = 237 => main.op = "ED"
      /\ b \notin {203, 237} => main.op \notin {"CB", "ED"}
  <2>1. b \notin {203, 237} => main.op \in Families
    BY <1>2, MainFits DEF Fits
  <2>2. "CB" \notin Families /\ "ED" \notin Families
    BY DEF Families, ByteLoads, WordLoads, Exchanges, Blocks, Moving, Comparing, Receiving,
      Sending, Operations, Generals, Changes, OnBytes, Bits, Wides, Jumps, Calls, Returns,
      Ports,
      Controls
  <2>3. QED BY <1>2, <2>1, <2>2, MainFits
<1> HIDE DEF named, pointed
<1>4. \A ins, disp, next :
        /\ D(ins, disp, next).ins = ins /\ D(ins, disp, next).next = next % 65536
        /\ D(ins, disp, next).named = named /\ D(ins, disp, next).pointed = pointed
  OBVIOUS
<1> HIDE DEF D, main, b
<1>5. d = CASE main.op = "CB" /\ named = "HL" -> D(sInstrCB(read(mem, at + 1)), 0, at + 2)
            [] main.op = "CB" /\ named # "HL" ->
                 D(sInstrCB(read(mem, at + 2)), Signed(read(mem, at + 1)), at + 3)
            [] main.op = "ED" -> D(sInstrED(read(mem, at + 1)), 0, at + 2)
            [] OTHER -> D(main, 0, at + 1)
  BY DEF Decode, D, main, named, pointed, b
<1> HIDE DEF d, mem
<1>6. ASSUME b = 203 /\ n = 0
      PROVE  /\ d.ins = sInstrCB(read(mem, at + 1)) /\ d.next = (at + 2) % 65536
             /\ d.named = named /\ d.pointed = pointed
  <2>1. d = D(sInstrCB(read(mem, at + 1)), 0, at + 2)
    BY <1>1, <1>3, <1>5, <1>6
  <2>2. QED BY <1>4, <2>1
<1>7. ASSUME b = 203 /\ n # 0
      PROVE  /\ d.ins = sInstrCB(read(mem, at + 2)) /\ d.next = (at + 3) % 65536
             /\ d.named = named /\ d.pointed = pointed
  <2>1. d = D(sInstrCB(read(mem, at + 2)), Signed(read(mem, at + 1)), at + 3)
    BY <1>1, <1>3, <1>5, <1>7
  <2>2. QED BY <1>4, <2>1
<1>8. ASSUME b = 237
      PROVE  /\ d.ins = sInstrED(read(mem, at + 1)) /\ d.next = (at + 2) % 65536
             /\ d.named = named /\ d.pointed = pointed
  <2>1. d = D(sInstrED(read(mem, at + 1)), 0, at + 2)
    BY <1>1, <1>3, <1>5, <1>8
  <2>2. QED BY <1>4, <2>1
<1>9. ASSUME b \notin {203, 237}
      PROVE  /\ d.ins = main /\ d.next = (at + 1) % 65536
             /\ d.named = named /\ d.pointed = pointed
  <2>1. d = D(main, 0, at + 1)
    BY <1>1, <1>3, <1>5, <1>9
  <2>2. QED BY <1>4, <2>1
<1>10. d.named = named /\ d.pointed = pointed
  BY <1>6, <1>7, <1>8, <1>9
<1>11. /\ d.named = "HL" <=> n = 0
       /\ d.pointed = "HL" <=> n = 0
       /\ b = 203 /\ n = 0 => d.ins = sInstrCB(read(mem, at + 1)) /\ d.next = (at + 2) % 65536
       /\ b = 203 /\ n # 0 => d.ins = sInstrCB(read(mem, at + 2)) /\ d.next = (at + 3) % 65536
       /\ b = 237 => d.ins = sInstrED(read(mem, at + 1)) /\ d.next = (at + 2) % 65536
       /\ b \notin {203, 237} => d.ins = main /\ d.next = (at + 1) % 65536
  BY <1>1, <1>6, <1>7, <1>8, <1>9, <1>10
<1>12. QED BY <1>11 DEF DecodedAs, d, mem, b, main

\* How many bytes simop() fetches.
Length(d) == Immediate(d.ins) + (IF ByPointer(d.ins) /\ d.named # "HL" THEN 1 ELSE 0)

ListedAlike(mem, pc) ==
  ~(read(mem, pc) \in {221, 253} /\ read(mem, pc + 1) \in {221, 253, 227, 237})

\* The listing takes for an instruction what the processor fetches of it: the opcode
\* with its prefix up to e, then the operands.
LEMMA DecodeListed ==
  ASSUME NEW z, IsProcessor(z), FewPrefixes(z.mem, z.pc), ListedAlike(z.mem, z.pc)
  PROVE  LET d == Decode(z.mem, z.pc)
         IN  /\ d.named = "HL" <=> d.pointed = "HL"
             /\ \E e \in Int : d.next = e % 65536 /\ source(z.mem, z.pc) = e + Length(d)
             /\ d.ins.op \in Blocks => d.next = (z.pc + 2) % 65536
<1> DEFINE mem == z.mem
           pc == z.pc
           d == Decode(mem, pc)
           Goal == /\ d.named = "HL" <=> d.pointed = "HL"
                   /\ \E e \in Int : d.next = e % 65536 /\ source(mem, pc) = e + Length(d)
                   /\ d.ins.op \in Blocks => d.next = (pc + 2) % 65536
<1>1. pc \in Int /\ pc + 0 = pc
  <2>1. pc \in Int
    BY BytesAreNumbers DEF IsProcessor
  <2>2. QED BY <2>1
<1> DEFINE source0 == source(mem, pc)
<1>13. ASSUME NEW e \in Int, d.named = "HL" <=> d.pointed = "HL", d.next = e % 65536,
              source0 = e + Length(d), d.ins.op \in Blocks => e = pc + 2
       PROVE  Goal
  BY <1>13
<1> HIDE DEF Goal, source0
<1>2. PICK n \in 0..MaxPrefixes : Prefixed(mem, pc, n)
  BY DEF FewPrefixes
<1>3. n = Prefixes(mem, pc) /\ n \in Nat
  BY <1>2, PrefixesAre, PrefixAssumption
<1>4. \A a : read(mem, a) \in Byte /\ read(mem, a) \in 0..255
  <2>1. \A b \in Byte : b \in 0..255
    BY DEF Byte
  <2>2. QED BY <2>1, MemoryIsBytes
<1>5. \A a : Immediate(sInstrCB(read(mem, a))) = 0 /\ sInstrCB(read(mem, a)).op \in OnBytes
  BY <1>4, ByteLengths
<1>6. \A op \in OnBytes : op \notin Blocks /\ op \notin {"LD_R_ATRX", "LD_ATRX_R", "LD_ATRX_b"}
                          /\ op \notin Operations \cup {"INC", "DEC"}
  BY DEF OnBytes, Blocks, Moving, Comparing, Receiving, Sending, Operations
<1>7. \A a : ~ByPointer(sInstrCB(read(mem, a)))
  BY <1>5, <1>6 DEF ByPointer
<1>8. \A a : Immediate(sInstrED(read(mem, a))) = EDOperand(read(mem, a))
  BY <1>4, EDLengths
<1>9. ASSUME read(mem, pc) \notin {221, 253} PROVE Goal
  <2> DEFINE b == read(mem, pc)
  <2>1. n = 0
    <3>1. SUFFICES ASSUME n # 0 PROVE FALSE
      OBVIOUS
    <3>2. 0 \in 0..(n - 1)
      BY <1>3, <3>1
    <3>3. QED BY <1>1, <1>2, <1>9, <3>2 DEF Prefixed
  <2>2. pc = z.pc + n
    BY <1>1, <2>1
  <2>3. /\ d.named = "HL" /\ d.pointed = "HL"
        /\ b = 203 => d.ins = sInstrCB(read(mem, pc + 1)) /\ d.next = (pc + 2) % 65536
        /\ b = 237 => d.ins = sInstrED(read(mem, pc + 1)) /\ d.next = (pc + 2) % 65536
        /\ b \notin {203, 237} => d.ins = sInstr(b) /\ d.next = (pc + 1) % 65536
    <3>1. DecodedAs(mem, pc, n, pc)
      BY <1>3, <1>9, <2>2, DecodedAt
    <3>2. QED BY <2>1, <3>1 DEF DecodedAs
  <2>4. /\ b = 203 => source0 = pc + 2 + 0
        /\ b = 237 => source0 = pc + 2 + EDOperand(read(mem, pc + 1))
        /\ b \notin {203, 237} => source0 = pc + 1 + MainOperand(b)
    BY <1>9 DEF source0, source, CBOperand, Printed
  <2> HIDE DEF b, d
  <2>5. Length(d) = Immediate(d.ins)
    <3>1. Immediate(d.ins) \in Int
      BY DEF Immediate
    <3>2. QED BY <2>3, <3>1 DEF Length
  <2>6. CASE b = 203
    <3>1. Length(d) = 0 /\ d.ins.op \notin Blocks
      BY <1>5, <1>6, <2>3, <2>5, <2>6
    <3> DEFINE e == pc + 2
    <3>2. e \in Int /\ d.next = e % 65536 /\ source0 = e + Length(d)
      BY <1>1, <2>3, <2>4, <2>6, <3>1
    <3> HIDE DEF e
    <3>3. QED BY <1>13, <2>3, <3>1, <3>2
  <2>7. CASE b = 237
    <3>1. Length(d) = EDOperand(read(mem, pc + 1))
      BY <1>8, <2>3, <2>5, <2>7
    <3> DEFINE e == pc + 2
    <3>2. e \in Int /\ d.next = e % 65536 /\ source0 = e + Length(d) /\ e = pc + 2
      BY <1>1, <2>3, <2>4, <2>7, <3>1
    <3> HIDE DEF e
    <3>3. QED BY <1>13, <2>3, <3>2
  <2>8. CASE b \notin {203, 237}
    <3>1. Takes(sInstr(b), MainOperand(b), HasATRX(b) /\ b \notin {227, 233})
      BY <1>4, <1>9, <2>8, MainLengths DEF b
    <3>2. Length(d) = MainOperand(b) /\ d.ins.op \notin Blocks
      BY <2>3, <2>5, <2>8, <3>1 DEF Takes
    <3> DEFINE e == pc + 1
    <3>3. e \in Int /\ d.next = e % 65536 /\ source0 = e + Length(d)
      BY <1>1, <2>3, <2>4, <2>8, <3>2
    <3> HIDE DEF e
    <3>4. QED BY <1>13, <2>3, <3>2, <3>3
  <2>9. QED BY <2>6, <2>7, <2>8
<1>10. ASSUME read(mem, pc) \in {221, 253} PROVE Goal
  <2> DEFINE at == pc + 1
             b == read(mem, at)
  <2>1. b \notin {221, 253, 227, 237}
    BY <1>10 DEF ListedAlike
  <2>2. n = 1
    <3>1. n # 0
      BY <1>1, <1>2, <1>10 DEF Prefixed
    <3>2. SUFFICES ASSUME n # 1 PROVE FALSE
      OBVIOUS
    <3>3. 1 \in 0..(n - 1)
      BY <1>3, <3>1, <3>2
    <3>4. QED BY <1>2, <2>1, <3>3 DEF Prefixed
  <2>3. at = z.pc + n /\ at + 1 = pc + 2 /\ at + 2 = pc + 3 /\ at + 3 = pc + 4
    BY <1>1, <2>2
  <2>4. /\ d.named # "HL" /\ d.pointed # "HL"
        /\ b = 203 => d.ins = sInstrCB(read(mem, at + 2)) /\ d.next = (at + 3) % 65536
        /\ b # 203 => d.ins = sInstr(b) /\ d.next = (at + 1) % 65536
    <3>1. DecodedAs(mem, pc, n, at)
      BY <1>3, <2>1, <2>3, DecodedAt
    <3> HIDE DEF at
    <3>2. QED BY <2>1, <2>2, <3>1 DEF DecodedAs
  <2>5. /\ b = 203 => source0 = pc + 4
        /\ b = 233 => source0 = pc + 2
        /\ b \notin {203, 233} /\ HasATRX(b) => source0 = pc + 3 + MainOperand(b)
        /\ b \notin {203, 233} /\ ~HasATRX(b) => source0 = pc + 2 + MainOperand(b)
    <3>1. b = 203 => source0 = pc + 4
      BY <1>1, <1>10 DEF source0, source, CBOperand, Printed, HasATRX
    <3>2. b = 233 => source0 = pc + 2
      BY <1>10 DEF source0, source
    <3>3. b \notin {203, 233} /\ HasATRX(b) => source0 = pc + 3 + MainOperand(b)
      BY <1>10 DEF source0, source
    <3>4. b \notin {203, 233} /\ ~HasATRX(b) => source0 = pc + 2 + MainOperand(b)
      BY <1>10 DEF source0, source
    <3>5. QED BY <3>1, <3>2, <3>3, <3>4
  <2> HIDE DEF b, d, at
  <2>6. CASE b = 203
    <3>1. Length(d) = 0 /\ d.ins.op \notin Blocks
      BY <1>5, <1>6, <1>7, <2>4, <2>6 DEF Length
    <3> DEFINE e == pc + 4
    <3>2. e \in Int /\ d.next = e % 65536 /\ source0 = e + Length(d)
      BY <1>1, <2>3, <2>4, <2>5, <2>6, <3>1
    <3> HIDE DEF e
    <3>3. QED BY <1>13, <2>4, <3>1, <3>2
  <2>7. CASE b # 203
    <3>1. Takes(sInstr(b), MainOperand(b), HasATRX(b) /\ b \notin {227, 233})
      BY <1>4, <2>1, <2>7, MainLengths DEF b
    <3>2. /\ Immediate(d.ins) = MainOperand(b) /\ d.ins.op \notin Blocks
          /\ ByPointer(d.ins) <=> HasATRX(b) /\ b # 233
      BY <2>1, <2>4, <2>7, <3>1 DEF Takes
    <3>3. MainOperand(b) \in Int /\ (b = 233 => MainOperand(b) = 0)
      <4>1. MainOperand(b) \in Int
        BY OperandLength
      <4>2. b = 233 => MainOperand(b) = 0
        BY DEF MainOperand, HighOperand, Printed
      <4>3. QED BY <4>1, <4>2
    <3> DEFINE e == pc + 2
    <3>4. source0 = e + Length(d)
      <4>1. CASE b = 233
        BY <1>1, <2>5, <3>2, <3>3, <4>1 DEF Length
      <4>2. CASE b # 233
        BY <1>1, <2>4, <2>5, <2>7, <3>2, <3>3, <4>2 DEF Length
      <4>3. QED BY <4>1, <4>2
    <3>5. d.next = e % 65536
      BY <2>3, <2>4, <2>7
    <3>6. e \in Int
      BY <1>1
    <3> HIDE DEF e
    <3>7. QED BY <1>13, <2>4, <3>2, <3>4, <3>5, <3>6
  <2>8. QED BY <2>6, <2>7
<1>11. Goal
  BY <1>9, <1>10
<1>12. QED BY <1>11 DEF Goal

LEMMA LengthIs ==
  ASSUME NEW d, NEW op, d.ins.op = op
  PROVE  /\ op \in Long => Length(d) = 2
         /\ op \in Short \ {"LD_ATRX_b"} => Length(d) = 1
         /\ op = "LD_ATRX_b" => Length(d) = IF d.named = "HL" THEN 1 ELSE 2
         /\ op \in {"LD_R_ATRX", "LD_ATRX_R"} => Length(d) = IF d.named = "HL" THEN 0 ELSE 1
         /\ op \in Operations =>
              Length(d) = IF d.ins.x = "n" \/ (d.ins.x = "(HL)" /\ d.named # "HL") THEN 1 ELSE 0
         /\ op \in {"INC", "DEC"} =>
              Length(d) = IF d.ins.x = "(HL)" /\ d.named # "HL" THEN 1 ELSE 0
         /\ op \notin Long \cup Short \cup Operations \cup {"LD_R_ATRX", "LD_ATRX_R", "INC", "DEC"} =>
              Length(d) = 0
<1> DEFINE i == d.ins
<1>1. i.op = op
  OBVIOUS
<1> HIDE DEF i
<1>2. /\ op \in Long => Immediate(i) = 2 /\ ~ByPointer(i)
      /\ op \in Short \ {"LD_ATRX_b"} => Immediate(i) = 1 /\ ~ByPointer(i)
      /\ op = "LD_ATRX_b" => Immediate(i) = 1 /\ ByPointer(i)
      /\ op \in {"LD_R_ATRX", "LD_ATRX_R"} => Immediate(i) = 0 /\ ByPointer(i)
  BY <1>1 DEF Immediate, ByPointer, Long, Short, Operations
<1>3. op \in Operations =>
        /\ Immediate(i) = IF i.x = "n" THEN 1 ELSE 0
        /\ ByPointer(i) <=> i.x = "(HL)"
  BY <1>1 DEF Immediate, ByPointer, Long, Short, Operations
<1>4. op \in {"INC", "DEC"} => Immediate(i) = 0 /\ (ByPointer(i) <=> i.x = "(HL)")
  BY <1>1 DEF Immediate, ByPointer, Long, Short, Operations
<1>5. op \notin Long \cup Short \cup Operations \cup {"LD_R_ATRX", "LD_ATRX_R", "INC", "DEC"} =>
        Immediate(i) = 0 /\ ~ByPointer(i)
  BY <1>1 DEF Immediate, ByPointer, Short
<1>6. Length(d) = Immediate(i) + (IF ByPointer(i) /\ d.named # "HL" THEN 1 ELSE 0)
  BY DEF Length, i
<1>7. /\ op \in Long => Length(d) = 2
      /\ op \in Short \ {"LD_ATRX_b"} => Length(d) = 1
      /\ op = "LD_ATRX_b" => Length(d) = IF d.named = "HL" THEN 1 ELSE 2
      /\ op \in {"LD_R_ATRX", "LD_ATRX_R"} => Length(d) = IF d.named = "HL" THEN 0 ELSE 1
  BY <1>2, <1>6
<1>8. op \in Operations =>
        Length(d) = IF i.x = "n" \/ (i.x = "(HL)" /\ d.named # "HL") THEN 1 ELSE 0
  BY <1>3, <1>6
<1>9. op \in {"INC", "DEC"} => Length(d) = IF i.x = "(HL)" /\ d.named # "HL" THEN 1 ELSE 0
  BY <1>4, <1>6
<1>10. op \notin Long \cup Short \cup Operations \cup {"LD_R_ATRX", "LD_ATRX_R", "INC", "DEC"} =>
         Length(d) = 0
  BY <1>5, <1>6
<1>11. QED BY <1>7, <1>8, <1>9, <1>10 DEF i

-------------------------------------------------------------------------------
(* Where the processor is after an instruction that does not jump. *)

IsAt(w, a) == "pc" \in DOMAIN w /\ w.pc = a
Advanced(a, k) == IF k = 0 THEN a ELSE (a + k) % 65536

LEMMA ByteStays ==
  ASSUME NEW w, NEW a, IsAt(w, a), NEW n, NEW v PROVE IsAt(Set8(w, n, v), a)
BY DEF IsAt, Set8

LEMMA PairStays ==
  ASSUME NEW w, NEW a, IsAt(w, a), NEW p, NEW v PROVE IsAt(Set16(w, p, v), a)
<1>1. CASE p = "SP"
  BY <1>1 DEF IsAt, Set16
<1>2. CASE p = "AF"
  <2> DEFINE high == v \div 256
             g == FlagsOf(v % 256)
  <2>1. Set16(w, p, v) = [w EXCEPT !.r["A"] = high, !.f = g]
    BY <1>2 DEF Set16
  <2> HIDE DEF high, g
  <2>2. QED BY <2>1 DEF IsAt
<1>3. CASE p \notin {"SP", "AF"}
  BY <1>3 DEF IsAt, Set16
<1>4. QED BY <1>1, <1>2, <1>3

LEMMA MemoryStays ==
  ASSUME NEW w, NEW a, IsAt(w, a), NEW n, NEW v PROVE IsAt(Put(w, n, v), a)
BY DEF IsAt, Put

LEMMA StackStays ==
  ASSUME NEW w, NEW a, IsAt(w, a) PROVE IsAt(Pop(w), a) /\ \A v : IsAt(Push(w, v), a)
BY DEF IsAt, Push, Pop

LEMMA FlagsStay ==
  ASSUME NEW w, NEW a, IsAt(w, a), NEW g PROVE IsAt([w EXCEPT !.f = g], a)
BY DEF IsAt

LEMMA ReadStays ==
  ASSUME NEW w, NEW a, IsAt(w, a), NEW n PROVE IsAt(Read(w, n), a)
BY DEF IsAt, Read

LEMMA GoesTo ==
  ASSUME NEW w, NEW a, IsAt(w, a), NEW k
  PROVE  IsAt(Skip(w, k), (a + k) % 65536) /\ IsAt(To(w, k), k % 65536)
BY DEF IsAt, Skip, To

LEMMA ByteLoadGoes ==
  ASSUME NEW z, NEW a \in Int, IsAt(z, a), NEW d, d.ins.op \in ByteLoads,
         d.named = "HL" <=> d.pointed = "HL", NEW any
  PROVE  IsAt(LoadByte(z, d, any), Advanced(a, Length(d)))
<1> DEFINE x == d.ins.x
           y == d.ins.y
           v == Advanced(a, Length(d))
<1>1. IsAt(Skip(z, 1), (a + 1) % 65536) /\ IsAt(Skip(z, 2), (a + 2) % 65536)
  BY GoesTo
<1>2. CASE d.ins.op = "LD_R_R"
  <2>1. v = a
    BY <1>2, LengthIs DEF Advanced, Long, Short, Operations
  <2>2. LoadByte(z, d, any) = IF x = "R" THEN z ELSE Set8(z, In(d.named, x), z.r[In(d.named, y)])
    BY <1>2 DEF LoadByte
  <2>3. QED BY <2>1, <2>2, ByteStays
<1>3. CASE d.ins.op = "LDS_A_R"
  <2>1. v = a
    BY <1>3, LengthIs DEF Advanced, Long, Short, Operations
  <2>2. LoadByte(z, d, any) = LDS_A_R(z, d, any)
    BY <1>3 DEF LoadByte
  <2>3. \E b, g : LDS_A_R(z, d, any) = [Set8(z, "A", b) EXCEPT !.f = g]
    BY DEF LDS_A_R
  <2>4. QED BY <2>1, <2>2, <2>3, ByteStays, FlagsStay
<1>4. CASE d.ins.op = "LD_R_b"
  <2>1. v = (a + 1) % 65536
    BY <1>4, LengthIs DEF Advanced, Short
  <2>2. LoadByte(z, d, any) = Set8(Skip(z, 1), In(d.named, x), Imm8(z))
    BY <1>4 DEF LoadByte
  <2>3. QED BY <1>1, <2>1, <2>2, ByteStays
<1>5. CASE d.ins.op \in {"LD_R_ATRX", "LD_ATRX_R"}
  <2>1. IsAt(AfterPointed(z, d), v)
    <3>1. v = IF d.named = "HL" THEN a ELSE (a + 1) % 65536
      BY <1>5, LengthIs DEF Advanced
    <3>2. QED BY <1>1, <3>1 DEF AfterPointed
  <2> HIDE DEF v
  <2>2. CASE d.ins.op = "LD_R_ATRX"
    <3>1. LoadByte(z, d, any) = Set8(AfterPointed(z, d), x, read(z.mem, Pointed(z, d, y)))
      BY <2>2 DEF LoadByte, LD_R_ATRX
    <3>2. QED BY <2>1, <3>1, ByteStays DEF v
  <2>3. CASE d.ins.op = "LD_ATRX_R"
    <3>1. LoadByte(z, d, any) = Put(AfterPointed(z, d), Pointed(z, d, x), z.r[y])
      BY <2>3 DEF LoadByte, LD_ATRX_R
    <3>2. QED BY <2>1, <3>1, MemoryStays DEF v
  <2>4. QED BY <1>5, <2>2, <2>3
<1>6. CASE d.ins.op = "LD_ATRX_b"
  <2> DEFINE w == After(z, d)
             b == IF d.named = "HL" THEN a ELSE (a + 1) % 65536
  <2>1. IsAt(w, b)
    BY <1>1, <1>6 DEF After, Fetches, OnBytes
  <2>2. LoadByte(z, d, any) = Put(Skip(w, 1), Address(z, d), Imm8(w))
    BY <1>6 DEF LoadByte, LD_ATRX_b
  <2>3. v = (b + 1) % 65536
    <3>1. Length(d) = IF d.named = "HL" THEN 1 ELSE 2
      BY <1>6, LengthIs
    <3>2. (((a + 1) % 65536) + 1) % 65536 = (a + 2) % 65536
      OBVIOUS
    <3>3. QED BY <3>1, <3>2 DEF Advanced
  <2> HIDE DEF w, b, v
  <2>4. IsAt(Skip(w, 1), v)
    BY <2>1, <2>3, GoesTo
  <2>5. QED BY <2>2, <2>4, MemoryStays DEF v
<1>7. CASE d.ins.op \in {"LD_R_ATw", "LD_ATw_R"}
  <2>1. v = (a + 2) % 65536
    BY <1>7, LengthIs DEF Advanced, Long
  <2>2. \/ LoadByte(z, d, any) = Set8(Skip(z, 2), x, read(z.mem, Imm16(z)))
        \/ LoadByte(z, d, any) = Put(Skip(z, 2), Imm16(z), z.r[y])
    BY <1>7 DEF LoadByte
  <2>3. QED BY <1>1, <2>1, <2>2, ByteStays, MemoryStays
<1>8. QED BY <1>2, <1>3, <1>4, <1>5, <1>6, <1>7 DEF ByteLoads

LEMMA WordLoadGoes ==
  ASSUME NEW z, NEW a \in Int, IsAt(z, a), NEW d, d.ins.op \in WordLoads
  PROVE  IsAt(LoadWord(z, d), Advanced(a, Length(d)))
<1> DEFINE to == Of(d.named, d.ins.x)
           from == Of(d.named, d.ins.y)
           v == Advanced(a, Length(d))
           w == Skip(z, 2)
<1>1. IsAt(w, (a + 2) % 65536)
  BY GoesTo
<1>2. d.ins.op \in {"LD_RX_w", "LD_RX_ATw", "LD_ATw_RX"} => v = (a + 2) % 65536
  BY LengthIs DEF Advanced, Long
<1>3. d.ins.op \in {"LD_RX_RX", "PUSH_RX", "POP_RX"} => v = a
  BY LengthIs DEF Advanced, Long, Short, Operations
<1> HIDE DEF v, w
<1>4. CASE d.ins.op = "LD_RX_w"
  <2>1. LoadWord(z, d) = Set16(w, to, Imm16(z))
    BY <1>4 DEF LoadWord, w
  <2>2. QED BY <1>1, <1>2, <1>4, <2>1, PairStays DEF v
<1>5. CASE d.ins.op = "LD_RX_ATw"
  <2>1. LoadWord(z, d) = Set16(w, to, readWord(z.mem, Imm16(z)))
    BY <1>5 DEF LoadWord, w
  <2>2. QED BY <1>1, <1>2, <1>5, <2>1, PairStays DEF v
<1>6. CASE d.ins.op = "LD_ATw_RX"
  <2>1. LoadWord(z, d) = [w EXCEPT !.mem = writeWord(@, Imm16(z), Pair16(z, from))]
    BY <1>6 DEF LoadWord, w
  <2>2. QED BY <1>1, <1>2, <1>6, <2>1 DEF v, IsAt
<1>7. CASE d.ins.op = "LD_RX_RX"
  <2>1. LoadWord(z, d) = Set16(z, to, Pair16(z, from))
    BY <1>7 DEF LoadWord
  <2>2. QED BY <1>3, <1>7, <2>1, PairStays DEF v
<1>8. CASE d.ins.op = "PUSH_RX"
  <2>1. LoadWord(z, d) = Push(z, Pair16(z, to))
    BY <1>8 DEF LoadWord
  <2>2. QED BY <1>3, <1>8, <2>1, StackStays DEF v
<1>9. CASE d.ins.op = "POP_RX"
  <2>1. LoadWord(z, d) = Set16(Pop(z), to, Top(z))
    BY <1>9 DEF LoadWord
  <2>2. QED BY <1>3, <1>9, <2>1, StackStays, PairStays DEF v
<1>10. QED BY <1>4, <1>5, <1>6, <1>7, <1>8, <1>9 DEF WordLoads

LEMMA ExchangeGoes ==
  ASSUME NEW z, NEW a, IsAt(z, a), NEW d, d.ins.op \in Exchanges
  PROVE  IsAt(Exchange(z, d), a)
<1>1. CASE d.ins.op = "EX_RX_RX"
  BY <1>1, PairStays DEF Exchange, Swapped
<1>2. CASE d.ins.op = "EX_AF_AFP"
  <2> DEFINE w == [z EXCEPT !.alt.af = Pair16(z, "AF")]
  <2>1. IsAt(w, a)
    BY DEF IsAt
  <2>2. Exchange(z, d) = Set16(w, "AF", z.alt.af)
    BY <1>2 DEF Exchange
  <2> HIDE DEF w
  <2>3. QED BY <2>1, <2>2, PairStays
<1>3. CASE d.ins.op = "EXX"
  <2> DEFINE w == Set16(Set16(Set16(z, "BC", z.alt.bc), "DE", z.alt.de), "HL", z.alt.hl)
  <2>1. IsAt(w, a)
    BY PairStays
  <2>2. Exchange(z, d) = [w EXCEPT !.alt.bc = Pair16(z, "BC"), !.alt.de = Pair16(z, "DE"),
                                   !.alt.hl = Pair16(z, "HL")]
    BY <1>3 DEF Exchange
  <2> HIDE DEF w
  <2>3. QED BY <2>1, <2>2 DEF IsAt
<1>4. CASE d.ins.op = "EX_ATRX_RX"
  <2> DEFINE w == Set16(z, d.named, Top(z))
  <2>1. IsAt(w, a)
    BY PairStays
  <2>2. Exchange(z, d) = [w EXCEPT !.mem = writeWord(@, z.sp, Pair16(z, d.named))]
    BY <1>4 DEF Exchange
  <2> HIDE DEF w
  <2>3. QED BY <2>1, <2>2 DEF IsAt
<1>5. QED BY <1>1, <1>2, <1>3, <1>4 DEF Exchanges

LEMMA RoundGoes ==
  ASSUME NEW z, NEW a, IsAt(z, a), NEW d, d.ins.op \in Blocks, NEW any
  PROVE  \/ IsAt(RoundOf(z, d, any), a)
         \/ d.ins.op \in Repeating /\ IsAt(RoundOf(z, d, any), (a + 65534) % 65536)
<1> DEFINE op == d.ins.op
           step == IF op \in Up THEN 1 ELSE 65535
           hl == Pair16(z, "HL")
           bc == (Pair16(z, "BC") + 65535) % 65536
           b == DEC(z.r["B"], z.f)
           m == read(z.mem, hl)
           w == Set16(z, "HL", hl + step)
           again == IF op \in Moving THEN bc # 0
                    ELSE IF op \in Comparing THEN bc # 0 /\ m # z.r["A"]
                    ELSE b.r # 0
           v == CASE op \in Moving -> Moved(w, Pair16(z, "DE"), step, bc, m)
                  [] op \in Comparing -> Compared(w, bc, m)
                  [] op \in Receiving -> Received(w, hl, b, any)
                  [] op \in Sending -> Sent(w, b)
<1>1. RoundOf(z, d, any) = IF op \in Repeating /\ again THEN Skip(v, 65534) ELSE v
  BY DEF RoundOf
<1>2. IsAt(w, a)
  BY PairStays
<1> HIDE DEF hl, bc, b, m, w, step, again
<1>3. IsAt(Moved(w, Pair16(z, "DE"), step, bc, m), a)
  <2> DEFINE e == Pair16(z, "DE") + step
             u == Set16(Set16(w, "BC", bc), "DE", e)
             t == [u EXCEPT !.f.h = 0, !.f.p = Yes(bc # 0), !.f.n = 0]
  <2>1. IsAt(u, a)
    BY <1>2, PairStays
  <2>2. Moved(w, Pair16(z, "DE"), step, bc, m) = Put(t, Pair16(z, "DE"), m)
    BY DEF Moved
  <2> HIDE DEF u
  <2>3. IsAt(t, a)
    BY <2>1 DEF IsAt
  <2> HIDE DEF t
  <2>4. QED BY <2>2, <2>3, MemoryStays
<1>4. IsAt(Compared(w, bc, m), a)
  <2> DEFINE g == [CP(w.r["A"], m).f EXCEPT !.p = Yes(bc # 0), !.c = w.f.c]
  <2>1. Compared(w, bc, m) = [Set16(w, "BC", bc) EXCEPT !.f = g]
    BY DEF Compared
  <2> HIDE DEF g
  <2>2. QED BY <1>2, <2>1, PairStays, FlagsStay
<1>5. IsAt(Received(w, hl, b, any), a)
  <2> DEFINE u == Set8(Read(w, w.r["C"]), "B", b.r)
  <2>1. IsAt(u, a)
    BY <1>2, ReadStays, ByteStays
  <2>2. Received(w, hl, b, any) = [Put(u, hl, any) EXCEPT !.f = b.f]
    BY DEF Received
  <2> DEFINE t == Put(u, hl, any)
  <2>3. Received(w, hl, b, any) = [t EXCEPT !.f = b.f]
    BY <2>2
  <2> HIDE DEF u
  <2>4. IsAt(t, a)
    BY <2>1, MemoryStays
  <2> HIDE DEF t
  <2>5. QED BY <2>3, <2>4, FlagsStay
<1>6. IsAt(Sent(w, b), a)
  BY <1>2, ByteStays, FlagsStay DEF Sent
<1>7. IsAt(v, a)
  <2>1. CASE op \in Moving
    <3>1. v = Moved(w, Pair16(z, "DE"), step, bc, m)
      BY <2>1 DEF Moving, Comparing, Receiving, Sending
    <3>2. QED BY <1>3, <3>1
  <2>2. CASE op \in Comparing
    <3>1. v = Compared(w, bc, m)
      BY <2>2 DEF Moving, Comparing, Receiving, Sending
    <3>2. QED BY <1>4, <3>1
  <2>3. CASE op \in Receiving
    <3>1. v = Received(w, hl, b, any)
      BY <2>3 DEF Moving, Comparing, Receiving, Sending
    <3>2. QED BY <1>5, <3>1
  <2>4. CASE op \in Sending
    <3>1. v = Sent(w, b)
      BY <2>4 DEF Moving, Comparing, Receiving, Sending
    <3>2. QED BY <1>6, <3>1
  <2>5. QED BY <2>1, <2>2, <2>3, <2>4 DEF Blocks
<1> HIDE DEF v
<1>8. IsAt(Skip(v, 65534), (a + 65534) % 65536)
  BY <1>7, GoesTo
<1>9. QED BY <1>1, <1>7, <1>8

LEMMA AccumulatorGoes ==
  ASSUME NEW z, NEW a \in Int, IsAt(z, a), NEW d, d.ins.op \in Operations
  PROVE  IsAt(OnAccumulator(z, d), Advanced(a, Length(d)))
<1> DEFINE res == Computed(d.ins.op, z.r["A"], Operand8(z, d), z.f)
           w == IF d.ins.x = "n" THEN Skip(z, 1) ELSE IF d.ins.x = "(HL)" THEN After(z, d) ELSE z
           v == Advanced(a, Length(d))
<1>1. IsAt(Skip(z, 1), (a + 1) % 65536)
  BY GoesTo
<1>2. After(z, d) = IF d.named = "HL" THEN z ELSE Skip(z, 1)
  <2>1. d.ins.op \notin OnBytes
    BY DEF Operations, OnBytes
  <2>2. QED BY <2>1 DEF After, Fetches
<1>3. Length(d) = IF d.ins.x = "n" \/ (d.ins.x = "(HL)" /\ d.named # "HL") THEN 1 ELSE 0
  BY LengthIs
<1>4. IsAt(w, v)
  <2>1. "n" # "(HL)"
    OBVIOUS
  <2>2. QED BY <1>1, <1>2, <1>3, <2>1 DEF Advanced
<1>5. OnAccumulator(z, d) = [Set8(w, "A", res.r) EXCEPT !.f = res.f]
  BY DEF OnAccumulator
<1> HIDE DEF w, v, res
<1>6. IsAt(Set8(w, "A", res.r), v)
  BY <1>4, ByteStays
<1>7. IsAt([Set8(w, "A", res.r) EXCEPT !.f = res.f], v)
  BY <1>6, FlagsStay
<1>8. QED BY <1>5, <1>7 DEF v

LEMMA GeneralGoes ==
  ASSUME NEW z, NEW a, IsAt(z, a), NEW d, d.ins.op \in Generals
  PROVE  IsAt(General(z, d), a)
<1>1. \E r, g, m : LET w == [Set8(z, "A", r) EXCEPT !.f = g]
                   IN  General(z, d) \in {w, Put(w, Pair16(z, "HL"), m)}
  BY DEF General
<1>2. PICK r, g, m : LET w == [Set8(z, "A", r) EXCEPT !.f = g]
                     IN  General(z, d) \in {w, Put(w, Pair16(z, "HL"), m)}
  BY <1>1
<1> DEFINE w == [Set8(z, "A", r) EXCEPT !.f = g]
<1>3. IsAt(w, a)
  BY ByteStays, FlagsStay
<1>4. General(z, d) \in {w, Put(w, Pair16(z, "HL"), m)}
  BY <1>2
<1> HIDE DEF w
<1>5. QED BY <1>3, <1>4, MemoryStays

LEMMA OperandGoes ==
  ASSUME NEW z, NEW a \in Int, IsAt(z, a), NEW d, d.ins.op \in Changes
  PROVE  IsAt(OnOperand(z, d), Advanced(a, Length(d)))
<1> DEFINE reg == In(IF d.ins.op \in {"INC", "DEC"} THEN d.named ELSE d.pointed, d.ins.x)
           atHL == d.ins.x = "(HL)"
           res == Changed(d.ins.op, IF atHL THEN read(z.mem, Address(z, d)) ELSE z.r[reg], z.f)
           w == IF atHL THEN Put(After(z, d), Address(z, d), res.r) ELSE Set8(z, reg, res.r)
           v == Advanced(a, Length(d))
<1>1. IsAt(Skip(z, 1), (a + 1) % 65536)
  BY GoesTo
<1> DEFINE Goal == (d.ins.x = "(HL)" => IsAt(After(z, d), v)) /\ (d.ins.x # "(HL)" => IsAt(z, v))
<1>2. ASSUME d.ins.op \in {"INC", "DEC"} PROVE Goal
  <2>1. After(z, d) = IF d.named = "HL" THEN z ELSE Skip(z, 1)
    <3>1. d.ins.op \notin OnBytes
      BY <1>2 DEF OnBytes
    <3>2. QED BY <3>1 DEF After, Fetches
  <2>2. Length(d) = IF d.ins.x = "(HL)" /\ d.named # "HL" THEN 1 ELSE 0
    BY <1>2, LengthIs
  <2>3. (d.ins.x = "(HL)" => IsAt(After(z, d), v)) /\ (d.ins.x # "(HL)" => IsAt(z, v))
    BY <1>1, <2>1, <2>2 DEF Advanced
  <2>4. QED BY <2>3
<1>3. ASSUME d.ins.op \notin {"INC", "DEC"} PROVE Goal
  <2>1. d.ins.op \in OnBytes
    BY <1>3 DEF Changes
  <2>2. After(z, d) = z
    BY <2>1 DEF After, Fetches
  <2>3. Length(d) = 0
    <3>1. d.ins.op \notin Long \cup Short \cup Operations \cup {"LD_R_ATRX", "LD_ATRX_R", "INC", "DEC"}
      BY <2>1 DEF OnBytes, Long, Short, Operations
    <3>2. QED BY <3>1, LengthIs
  <2>4. IsAt(After(z, d), v) /\ IsAt(z, v)
    BY <2>2, <2>3 DEF Advanced
  <2>5. QED BY <2>4
<1> HIDE DEF Goal
<1>4. Goal
  BY <1>2, <1>3
<1>5. OnOperand(z, d) = [w EXCEPT !.f = res.f]
  BY DEF OnOperand
<1> HIDE DEF v, res, reg
<1>6. IsAt(w, v)
  BY <1>4, MemoryStays, ByteStays DEF Goal
<1> HIDE DEF w
<1>7. QED BY <1>5, <1>6, FlagsStay DEF v

LEMMA OneBitGoes ==
  ASSUME NEW z, NEW a, IsAt(z, a), NEW d, d.ins.op \in Bits
  PROVE  IsAt(OnOneBit(z, d), a)
<1>1. \E g, new, n : \/ OnOneBit(z, d) = [z EXCEPT !.f = g]
                     \/ OnOneBit(z, d) = Put(z, n, new)
                     \/ OnOneBit(z, d) = Set8(z, n, new)
  BY DEF OnOneBit
<1>2. QED BY <1>1, FlagsStay, MemoryStays, ByteStays

LEMMA WideGoes ==
  ASSUME NEW z, NEW a, IsAt(z, a), NEW d, d.ins.op \in Wides
  PROVE  IsAt(Arithmetic16(z, d), a)
<1> DEFINE to == Of(d.named, d.ins.x)
           x == Pair16(z, to)
           y == IF d.ins.y = "" THEN 1 ELSE Pair16(z, Of(d.named, d.ins.y))
           res == CASE d.ins.op = "ADD_RX_RX" -> ADD16(x, y, z.f)
                    [] d.ins.op = "ADC_RX_RX" -> ADC16(x, y, z.f)
                    [] d.ins.op = "SBC_RX_RX" -> SBC16(x, y, z.f)
                    [] d.ins.op = "INC_RX" -> [r |-> x + 1, f |-> z.f]
                    [] d.ins.op = "DEC_RX" -> [r |-> x + 65535, f |-> z.f]
<1>1. Arithmetic16(z, d) = [Set16(z, to, res.r) EXCEPT !.f = res.f]
  BY DEF Arithmetic16
<1> HIDE DEF res, to
<1>2. QED BY <1>1, PairStays, FlagsStay

LEMMA InOutGoes ==
  ASSUME NEW z, NEW a \in Int, IsAt(z, a), NEW d, d.ins.op \in Ports, NEW any
  PROVE  IsAt(InOut(z, d, any), Advanced(a, Length(d)))
<1>1. IsAt(Skip(z, 1), (a + 1) % 65536)
  BY GoesTo
<1>2. CASE d.ins.op \in {"IN_R_ATb", "OUT_ATb_R"}
  <2>1. Advanced(a, Length(d)) = (a + 1) % 65536
    BY <1>2, LengthIs DEF Advanced, Short
  <2>2. InOut(z, d, any) \in {Set8(Read(Skip(z, 1), Imm8(z)), "A", any), Skip(z, 1)}
    BY <1>2 DEF InOut
  <2>3. QED BY <1>1, <2>1, <2>2, ByteStays, ReadStays
<1>3. CASE d.ins.op \in {"IN_R_ATR", "OUT_ATR_R"}
  <2>1. Advanced(a, Length(d)) = a
    BY <1>3, LengthIs DEF Advanced, Short, Long, Operations
  <2>2. \/ InOut(z, d, any) = z
        \/ \E n, g : InOut(z, d, any) = [Set8(Read(z, z.r["C"]), n, any) EXCEPT !.f = g]
    BY <1>3 DEF InOut
  <2>3. QED BY <2>1, <2>2, ByteStays, ReadStays, FlagsStay
<1>4. QED BY <1>2, <1>3 DEF Ports

LEMMA ControlGoes ==
  ASSUME NEW z, NEW a, IsAt(z, a), NEW d, d.ins.op \in Controls
  PROVE  IsAt(Control(z, d), a)
BY DEF Control, Controls, IsAt

LEMMA Modulo ==
  ASSUME NEW e \in Int, NEW k \in Int
  PROVE  ((e % 65536) + k) % 65536 = (e + k) % 65536
OBVIOUS

LEMMA WordIsItself == \A v \in Word : v % 65536 = v
BY DEF Word

LEMMA ReadsAround ==
  ASSUME NEW mem, NEW e \in Int
  PROVE  read(mem, e % 65536) = read(mem, e) /\ readWord(mem, e % 65536) = readWord(mem, e)
<1>1. (e % 65536) % 65536 = e % 65536 /\ ((e % 65536) + 1) % 65536 = (e + 1) % 65536
  OBVIOUS
<1>2. read(mem, e % 65536) = read(mem, e) /\ read(mem, (e % 65536) + 1) = read(mem, e + 1)
  BY <1>1 DEF read
<1>3. QED BY <1>2 DEF readWord

\* What is pushed is on top of the stack.
LEMMA PushedIsOnTop ==
  ASSUME NEW z, IsProcessor(z), NEW v \in Word
  PROVE  Top(Push(z, v)) = v /\ Push(z, v).sp # z.sp
<1> DEFINE s == (z.sp + 65534) % 65536
           first == write(z.mem, s, v % 256)
           mem == write(first, s + 1, v \div 256)
<1>1. z.sp \in Int /\ z.sp >= 0 /\ z.sp < 65536
  BY DEF IsProcessor, Word
<1>2. s \in Int /\ s % 65536 = s /\ s # z.sp /\ (s + 1) % 65536 # s
  BY <1>1
<1>3. Push(z, v) = [z EXCEPT !.sp = s, !.mem = mem]
  BY DEF Push, writeWord
<1>4. "sp" \in DOMAIN z /\ "mem" \in DOMAIN z
  BY DEF IsProcessor
<1> HIDE DEF s
<1>5. read(mem, s) = v % 256
  <2>1. s \in DOMAIN first /\ first[s] = v % 256
    BY <1>2 DEF write
  <2> HIDE DEF first
  <2>2. s \in DOMAIN mem /\ mem[s] = first[s]
    BY <1>2, <2>1 DEF write
  <2> HIDE DEF mem
  <2>3. QED BY <1>2, <2>1, <2>2 DEF read
<1>6. read(mem, s + 1) = v \div 256
  <2> HIDE DEF first
  <2>1. QED BY DEF read, write
<1> HIDE DEF mem
<1>7. Push(z, v).sp = s /\ Push(z, v).mem = mem
  BY <1>3, <1>4
<1>8. Top(Push(z, v)) = (v % 256) + 256 * (v \div 256)
  BY <1>5, <1>6, <1>7 DEF Top, readWord
<1>9. v = (v % 256) + 256 * (v \div 256)
  BY DEF Word
<1>10. QED BY <1>2, <1>7, <1>8, <1>9

LEMMA JumpGoes ==
  ASSUME NEW z, IsProcessor(z), NEW e \in Int, z.pc = e % 65536, NEW d, d.ins.op \in Jumps,
         NEW end, end = e + Length(d), d.named \in RegPair
  PROVE  LET next == end % 65536
             w == Jump(z, d)
         IN  /\ d.ins.op = "JP" => w.pc \in {next, readWord(z.mem, end - 2)}
             /\ d.ins.op \in {"JR", "DJNZ"} =>
                  w.pc \in {next, (end + Signed(read(z.mem, end - 1))) % 65536}
             /\ d.ins.op = "JP_ATRX" => w.pc = Pair16(z, d.named)
<1> DEFINE next == end % 65536
           w == Jump(z, d)
           s == Signed(Imm8(z))
           short == Skip(z, 1)
           relative == To(z, z.pc + 1 + s)
           b == (z.r["B"] + 255) % 256
<1>1. /\ \A v, k : IsAt(To(z, v), v % 65536)
      /\ IsAt(Skip(z, 1), (z.pc + 1) % 65536) /\ IsAt(Skip(z, 2), (z.pc + 2) % 65536)
  BY DEF IsAt, To, Skip, IsProcessor
<1>2. /\ Imm8(z) = read(z.mem, e) /\ Imm16(z) = readWord(z.mem, e)
      /\ s \in Int /\ Imm16(z) \in Word
  BY ReadsAround, Readings DEF Imm8, Imm16
<1>3. ASSUME d.ins.op = "JP" PROVE w.pc \in {next, readWord(z.mem, end - 2)}
  <2>1. end = e + 2 /\ end - 2 = e
    <3>1. Length(d) = 2
      BY <1>3, LengthIs DEF Long
    <3>2. QED BY <3>1
  <2>2. w = IF Holds(z.f, d.ins.x) THEN To(z, Imm16(z)) ELSE Skip(z, 2)
    BY <1>3 DEF Jump
  <2>3. Imm16(z) % 65536 = Imm16(z)
    BY <1>2, WordIsItself
  <2>4. (z.pc + 2) % 65536 = next
    BY <2>1, Modulo
  <2>5. QED BY <1>1, <1>2, <2>1, <2>2, <2>3, <2>4 DEF IsAt
<1>4. ASSUME d.ins.op \in {"JR", "DJNZ"}
      PROVE  w.pc \in {next, (end + Signed(read(z.mem, end - 1))) % 65536}
  <2>1. end = e + 1 /\ end - 1 = e
    <3>1. Length(d) = 1
      BY <1>4, LengthIs DEF Short
    <3>2. QED BY <3>1
  <2>2. IsAt(short, next)
    <3>1. (z.pc + 1) % 65536 = next
      BY <2>1, Modulo
    <3>2. QED BY <1>1, <3>1
  <2>3. IsAt(relative, (end + s) % 65536)
    <3>1. z.pc + 1 + s = z.pc + (1 + s) /\ end + s = e + (1 + s) /\ 1 + s \in Int
      BY <1>2, <2>1
    <3>2. (z.pc + 1 + s) % 65536 = (end + s) % 65536
      BY <3>1, Modulo
    <3>3. QED BY <1>1, <3>2
  <2>4. \/ w = short \/ w = relative
        \/ w = Set8(short, "B", b) \/ w = Set8(relative, "B", b)
    BY <1>4 DEF Jump
  <2>5. Signed(read(z.mem, end - 1)) = s
    BY <1>2, <2>1
  <2> HIDE DEF short, relative, w, s, next
  <2>6. IsAt(w, next) \/ IsAt(w, (end + s) % 65536)
    BY <2>2, <2>3, <2>4, ByteStays
  <2>7. QED BY <2>5, <2>6 DEF IsAt
<1>5. ASSUME d.ins.op = "JP_ATRX" PROVE w.pc = Pair16(z, d.named)
  <2>1. w = To(z, Pair16(z, d.named))
    BY <1>5 DEF Jump
  <2>2. Pair16(z, d.named) % 65536 = Pair16(z, d.named)
    BY PairIsWord, WordIsItself
  <2>3. QED BY <1>1, <2>1, <2>2 DEF IsAt
<1>6. QED BY <1>3, <1>4, <1>5

LEMMA CallGoes ==
  ASSUME NEW z, IsProcessor(z), NEW e \in Int, z.pc = e % 65536, NEW d,
         d.ins.op \in Calls \cup Returns, NEW end, end = e + Length(d)
  PROVE  LET next == end % 65536
             w == CallOrReturn(z, d)
         IN  /\ d.ins.op \in Calls => IF w.sp # z.sp THEN Top(w) = next ELSE w.pc = next
             /\ d.ins.op \in Returns => w.pc \in {next, Top(z)}
<1> DEFINE next == end % 65536
           w == CallOrReturn(z, d)
           u == Skip(z, 2)
           back == To(Pop(z), Top(z))
<1>1. \A v, a : IsProcessor(v) => Top(To(v, a)) = Top(v) /\ To(v, a).sp = v.sp
  BY DEF To, Top, IsProcessor
<1>2. Top(z) % 65536 = Top(z) /\ z.pc \in Word /\ Like(z, z)
  BY Readings, WordIsItself, LikeItself DEF IsProcessor
<1>3. ASSUME d.ins.op = "CALL" PROVE IF w.sp # z.sp THEN Top(w) = next ELSE w.pc = next
  <2>1. IsProcessor(u) /\ u.pc = next /\ u.sp = z.sp
    <3>1. IsProcessor(u)
      BY <1>2, SkipKeeps DEF Like
    <3>2. u.pc = (z.pc + 2) % 65536 /\ u.sp = z.sp
      BY DEF Skip, IsProcessor
    <3>3. Length(d) = 2
      BY <1>3, LengthIs DEF Long
    <3>4. (z.pc + 2) % 65536 = next
      BY <3>3, Modulo
    <3>5. QED BY <3>1, <3>2, <3>4
  <2>2. w = IF Holds(z.f, d.ins.x) THEN To(Push(u, u.pc), Imm16(z)) ELSE u
    BY <1>3 DEF CallOrReturn
  <2> HIDE DEF u, w, next
  <2> DEFINE p == Push(u, u.pc)
  <2>3. u.pc \in Word
    BY <2>1 DEF IsProcessor
  <2>4. IsProcessor(p)
    BY <2>1, <2>3, LikeItself, PushKeeps DEF Like
  <2>5. Top(p) = next /\ p.sp # z.sp
    BY <2>1, <2>3, PushedIsOnTop
  <2> HIDE DEF p
  <2>6. Top(To(p, Imm16(z))) = next /\ To(p, Imm16(z)).sp # z.sp
    BY <1>1, <2>4, <2>5
  <2>7. QED BY <2>1, <2>2, <2>6 DEF p
<1>4. ASSUME d.ins.op = "RST" PROVE IF w.sp # z.sp THEN Top(w) = next ELSE w.pc = next
  <2> DEFINE p == Push(z, z.pc)
  <2>1. w = To(p, d.ins.x)
    BY <1>4 DEF CallOrReturn
  <2>2. IsProcessor(p)
    BY <1>2, PushKeeps DEF Like
  <2>3. Top(p) = z.pc /\ p.sp # z.sp
    BY <1>2, PushedIsOnTop
  <2>4. z.pc = next
    <3>1. Length(d) = 0
      BY <1>4, LengthIs DEF Long, Short, Operations
    <3>2. QED BY <3>1
  <2> HIDE DEF p, w, next
  <2>5. Top(To(p, d.ins.x)) = next /\ To(p, d.ins.x).sp # z.sp
    BY <1>1, <2>2, <2>3, <2>4
  <2>6. QED BY <2>1, <2>5
<1>5. ASSUME d.ins.op \in Returns PROVE w.pc \in {next, Top(z)}
  <2>1. back.pc = Top(z)
    BY <1>2 DEF To, Pop, IsProcessor
  <2>2. w.pc \in {z.pc, back.pc}
    <3>1. w = z \/ w = back \/ w = [back EXCEPT !.iff1 = z.iff2]
      BY <1>5 DEF CallOrReturn, Returns
    <3>2. "pc" \in DOMAIN back
      BY DEF To, Pop, IsProcessor
    <3> HIDE DEF back, w
    <3>3. QED BY <3>1, <3>2
  <2>3. z.pc = next
    <3>1. Length(d) = 0
      BY <1>5, LengthIs DEF Long, Short, Operations, Returns
    <3>2. QED BY <3>1
  <2>4. QED BY <2>1, <2>2, <2>3
<1>6. QED BY <1>3, <1>4, <1>5 DEF Calls

\* Where the processor goes from an instruction that neither jumps nor calls.
LEMMA GoesOnByLength ==
  ASSUME NEW z, NEW a \in Int, IsAt(z, a), NEW d, d.named = "HL" <=> d.pointed = "HL", NEW any,
         d.ins.op \in Families, d.ins.op \notin Jumps \cup Calls \cup Returns
  PROVE  LET w == simop(z, d, any)
             v == Advanced(a, Length(d))
         IN  \/ IsAt(w, v)
             \/ d.ins.op \in Repeating /\ IsAt(w, (a + 65534) % 65536)
<1> DEFINE w == simop(z, d, any)
           v == Advanced(a, Length(d))
           op == d.ins.op
           Takers == Long \cup Short \cup Operations \cup {"LD_R_ATRX", "LD_ATRX_R", "INC", "DEC"}
<1>1. op \notin Takers => v = a
  <2>1. op \notin Takers => Length(d) = 0
    BY LengthIs
  <2>2. QED BY <2>1 DEF Advanced
<1>2. /\ op \in Exchanges \cup Blocks \cup Generals \cup Bits \cup Wides \cup Controls => op \notin Takers
  BY DEF Exchanges, Blocks, Moving, Comparing, Receiving, Sending, Generals, Bits, Wides,
    Controls,
    Long, Short, Operations
<1> HIDE DEF v, Takers
<1>3. ASSUME op \in ByteLoads PROVE IsAt(w, v)
  BY <1>3, FamilyExecutes, ByteLoadGoes DEF v
<1>4. ASSUME op \in WordLoads PROVE IsAt(w, v)
  BY <1>4, FamilyExecutes, WordLoadGoes DEF v
<1>5. ASSUME op \in Exchanges PROVE IsAt(w, v)
  BY <1>1, <1>2, <1>5, FamilyExecutes, ExchangeGoes
<1>6. ASSUME op \in Blocks
      PROVE  IsAt(w, v) \/ (op \in Repeating /\ IsAt(w, (a + 65534) % 65536))
  BY <1>1, <1>2, <1>6, FamilyExecutes, RoundGoes
<1>7. ASSUME op \in Operations PROVE IsAt(w, v)
  BY <1>7, FamilyExecutes, AccumulatorGoes DEF v
<1>8. ASSUME op \in Generals PROVE IsAt(w, v)
  BY <1>1, <1>2, <1>8, FamilyExecutes, GeneralGoes
<1>9. ASSUME op \in Changes PROVE IsAt(w, v)
  BY <1>9, FamilyExecutes, OperandGoes DEF v
<1>10. ASSUME op \in Bits PROVE IsAt(w, v)
  BY <1>1, <1>2, <1>10, FamilyExecutes, OneBitGoes
<1>11. ASSUME op \in Wides PROVE IsAt(w, v)
  BY <1>1, <1>2, <1>11, FamilyExecutes, WideGoes
<1>12. ASSUME op \in Ports PROVE IsAt(w, v)
  BY <1>12, FamilyExecutes, InOutGoes DEF v
<1>13. ASSUME op \in Controls PROVE IsAt(w, v)
  BY <1>1, <1>2, <1>13, FamilyExecutes, ControlGoes
<1>14. QED
  BY <1>3, <1>4, <1>5, <1>6, <1>7, <1>8, <1>9, <1>10, <1>11, <1>12, <1>13 DEF Families, v

\* The addresses an instruction may leave the processor at, as it is listed.
LEMMA ListedIsRun ==
  ASSUME NEW z, IsProcessor(z), FewPrefixes(z.mem, z.pc), ListedAlike(z.mem, z.pc), ~Accepts(z),
         NEW any
  PROVE  LET d == Decode(z.mem, z.pc)
             op == d.ins.op
             w == sim(z, any)
             end == source(z.mem, z.pc)
             next == end % 65536
         IN  /\ op \in Calls => IF w.sp # z.sp THEN Top(w) = next ELSE w.pc = next
             /\ op \in {"JR", "DJNZ"} =>
                  w.pc \in {next, (end + Signed(read(z.mem, end - 1))) % 65536}
             /\ op = "JP" => w.pc \in {next, readWord(z.mem, end - 2)}
             /\ op \in Returns \cup {"JP_ATRX"} => w.pc \in {next, Top(z), Pair16(z, d.named)}
             /\ op \in Repeating => w.pc \in {next, z.pc}
             /\ op \notin Calls \cup Jumps \cup Returns \cup Repeating => w.pc = next
<1> DEFINE d == Decode(z.mem, z.pc)
           op == d.ins.op
           w == sim(z, any)
           end == source(z.mem, z.pc)
           next == end % 65536
           y == IF z.iff1 = 1 THEN [z EXCEPT !.iff2 = 1] ELSE z
           u == To(y, d.next)
<1>1. w = simop(u, d, any)
  BY DEF sim
<1>2. PICK e \in Int : d.next = e % 65536 /\ end = e + Length(d)
  BY DecodeListed
<1>3. WellDecoded(d)
  BY DecodeFits
<1>4. (d.named = "HL" <=> d.pointed = "HL") /\ (op \in Blocks => d.next = (z.pc + 2) % 65536)
  BY DecodeListed
<1> HIDE DEF d, end
<1>5. Like(y, z)
  BY DEF Like, IsProcessor, Flag
<1>6. IsProcessor(u) /\ u.pc = e % 65536 /\ u.mem = z.mem /\ u.sp = z.sp /\ u.r = z.r /\ u.f = z.f
  <2>1. Like(u, z)
    BY <1>3, <1>5, ToKeeps DEF WellDecoded
  <2>2. (e % 65536) % 65536 = e % 65536
    OBVIOUS
  <2>3. "pc" \in DOMAIN y /\ y.mem = z.mem /\ y.sp = z.sp /\ y.r = z.r /\ y.f = z.f
    BY DEF IsProcessor
  <2> HIDE DEF y
  <2>4. QED BY <1>2, <2>1, <2>2, <2>3 DEF Like, To
<1> HIDE DEF u, w
<1>7. d.named \in RegPair
  BY <1>3 DEF WellDecoded, Pairs, RegPair
<1>8. ASSUME op \in Calls \cup Returns
      PROVE  /\ op \in Calls => IF w.sp # z.sp THEN Top(w) = next ELSE w.pc = next
             /\ op \in Returns => w.pc \in {next, Top(z)}
  <2>1. w = CallOrReturn(u, d)
    BY <1>1, <1>8, FamilyExecutes
  <2>2. Top(u) = Top(z)
    BY <1>6 DEF Top
  <2>3. QED BY <1>2, <1>6, <1>8, <2>1, <2>2, CallGoes
<1>9. ASSUME op \in Jumps
      PROVE  /\ op = "JP" => w.pc \in {next, readWord(z.mem, end - 2)}
             /\ op \in {"JR", "DJNZ"} =>
                  w.pc \in {next, (end + Signed(read(z.mem, end - 1))) % 65536}
             /\ op = "JP_ATRX" => w.pc = Pair16(z, d.named)
  <2>1. w = Jump(u, d)
    BY <1>1, <1>9, FamilyExecutes
  <2>2. Pair16(u, d.named) = Pair16(z, d.named)
    BY <1>6 DEF Pair16
  <2>3. QED BY <1>2, <1>6, <1>7, <1>9, <2>1, <2>2, JumpGoes
<1>10. ASSUME op \notin Jumps \cup Calls \cup Returns
       PROVE  w.pc = next \/ (op \in Repeating /\ w.pc = z.pc)
  <2> DEFINE a == e % 65536
             v == Advanced(a, Length(d))
  <2>1. op \in Families
    BY <1>3 DEF WellDecoded, Fits
  <2>2. IsAt(u, a) /\ a \in Int
    BY <1>6 DEF IsAt, IsProcessor
  <2>3. IsAt(w, v) \/ (op \in Repeating /\ IsAt(w, (a + 65534) % 65536))
    <3> HIDE DEF a
    <3>1. QED BY <1>1, <1>4, <1>10, <2>1, <2>2, GoesOnByLength
  <2>4. v = next
    <3>1. Length(d) \in Int
      BY DEF Length, Immediate
    <3>2. Length(d) = 0 => next = a /\ v = a
      BY <1>2 DEF Advanced
    <3>3. Length(d) # 0 => v = (a + Length(d)) % 65536
      BY DEF Advanced
    <3>4. (a + Length(d)) % 65536 = next
      BY <1>2, <3>1, Modulo
    <3> HIDE DEF v, next, a
    <3>5. QED BY <3>2, <3>3, <3>4
  <2>5. op \in Repeating => (a + 65534) % 65536 = z.pc
    <3>1. op \in Repeating => op \in Blocks
      BY DEF Repeating, Blocks, Moving, Comparing, Receiving, Sending
    <3>2. op \in Repeating => a = (z.pc + 2) % 65536
      BY <1>2, <1>4, <3>1
    <3>3. z.pc \in Int /\ z.pc >= 0 /\ z.pc < 65536
      BY DEF IsProcessor, Word
    <3>4. (((z.pc + 2) % 65536) + 65534) % 65536 = z.pc
      BY <3>3
    <3> HIDE DEF a
    <3>5. QED BY <3>2, <3>4
  <2> HIDE DEF v, next, a
  <2>6. QED BY <2>3, <2>4, <2>5 DEF IsAt
<1>11. Repeating \cap (Jumps \cup Calls \cup Returns) = {}
  BY DEF Repeating, Jumps, Calls, Returns
<1> HIDE DEF next
<1>12. QED BY <1>8, <1>9, <1>10, <1>11 DEF d, w, end, next, Jumps

LEMMA ListingFollows == ASSUME DebuggerInvariant PROVE ListingIsWhatRuns
<1> DEFINE end == source(z80.mem, z80.pc)
           next == end % 65536
           offset == Signed(read(z80.mem, end - 1))
<1>1. SUFFICES ASSUME Bounded(z80), ~Accepts(z80), ~ListedOtherwise, NEW any \in InByte
               PROVE  LET z == sim(z80, any)
                      IN  CASE Op \in Calls /\ z.sp # z80.sp -> Top(z) = next
                            [] Op \in {"JR", "DJNZ"} -> z.pc \in {next, (end + offset) % 65536}
                            [] Op = "JP" -> z.pc \in {next, readWord(z80.mem, end - 2)}
                            [] Op \in Returns \cup {"JP_ATRX"} ->
                                 z.pc \in {next, Top(z80), Pair16(z80, Decoded.named)}
                            [] Op \in Repeating -> z.pc \in {next, z80.pc}
                            [] OTHER -> z.pc = next
  BY DEF ListingIsWhatRuns
<1> DEFINE z == sim(z80, any)
<1>2. IsProcessor(z80)
  BY DEF DebuggerInvariant, TypeOK
<1>3. FewPrefixes(z80.mem, z80.pc)
  BY <1>1 DEF Bounded
<1>4. ListedAlike(z80.mem, z80.pc)
  BY <1>1 DEF ListedAlike, ListedOtherwise, Indexed, IndexBytes
<1>5. /\ Op \in Calls => IF z.sp # z80.sp THEN Top(z) = next ELSE z.pc = next
      /\ Op \in {"JR", "DJNZ"} => z.pc \in {next, (end + offset) % 65536}
      /\ Op = "JP" => z.pc \in {next, readWord(z80.mem, end - 2)}
      /\ Op \in Returns \cup {"JP_ATRX"} => z.pc \in {next, Top(z80), Pair16(z80, Decoded.named)}
      /\ Op \in Repeating => z.pc \in {next, z80.pc}
      /\ Op \notin Calls \cup Jumps \cup Returns \cup Repeating => z.pc = next
  BY <1>1, <1>2, <1>3, <1>4, ListedIsRun DEF Op, Decoded
<1>6. Calls = {"CALL", "RST"} /\ Returns = {"RET", "RETI", "RETN"}
      /\ Jumps = {"JP", "JR", "DJNZ", "JP_ATRX"}
      /\ Repeating = {"LDIR", "LDDR", "CPIR", "CPDR", "INIR", "OTIR"}
  BY DEF Calls, Returns, Jumps, Repeating
<1> DEFINE op == Op
           named == Decoded.named
<1> HIDE DEF op, named, z, next, end, offset
<1>7. QED BY <1>5, <1>6 DEF op, z

\* The debugger's listing and the processor, each with tables of its own, agree about
\* where an instruction ends and where it goes, for every program, at every address:
\* ListingIsWhatRuns of Debugger.
THEOREM ListingHolds == Spec => []ListingIsWhatRuns
<1>1. Init => DebuggerInvariant
  BY DebuggerInit
<1>2. DebuggerInvariant /\ [Next]_vars => DebuggerInvariant'
  BY DebuggerNext
<1>3. DebuggerInvariant => ListingIsWhatRuns
  BY ListingFollows
<1>4. QED BY <1>1, <1>2, <1>3, PTL DEF Spec

-------------------------------------------------------------------------------
(* An instruction after a prefix means IX or IY for HL. *)

\* z with h and l in HL instead.
Holding(z, h, l) == [z EXCEPT !.r["H"] = h, !.r["L"] = l]

Built(z) ==
  /\ DOMAIN z = {"r", "f", "alt", "sp", "pc", "mem", "iff1", "iff2", "im", "irq", "mode"}
  /\ DOMAIN z.r = RegName

LEMMA ProcessorIsBuilt == ASSUME NEW z, IsProcessor(z) PROVE Built(z)
BY DEF IsProcessor, Built

LEMMA HoldingIs ==
  ASSUME NEW z, Built(z), NEW h, NEW l
  PROVE  LET w == Holding(z, h, l)
         IN  /\ w.f = z.f /\ w.alt = z.alt /\ w.sp = z.sp /\ w.pc = z.pc /\ w.mem = z.mem
             /\ w.iff1 = z.iff1 /\ w.iff2 = z.iff2 /\ w.im = z.im /\ w.irq = z.irq /\ w.mode = z.mode
             /\ \A n \in RegName \ {"H", "L"} : w.r[n] = z.r[n]
             /\ w.r["H"] = h /\ w.r["L"] = l
             /\ Built(w)
BY DEF Holding, Built, RegName

LEMMA HoldingAs ==
  ASSUME NEW z, NEW h, NEW l, "r" \in DOMAIN z
  PROVE  Holding(z, h, l) = [z EXCEPT !.r = [z.r EXCEPT !["H"] = h, !["L"] = l]]
BY DEF Holding

LEMMA HoldingItself ==
  ASSUME NEW z, IsProcessor(z), z = [n \in DOMAIN z |-> z[n]]
  PROVE  Holding(z, z.r["H"], z.r["L"]) = z
<1> DEFINE r == z.r
           q == [r EXCEPT !["H"] = r["H"], !["L"] = r["L"]]
<1>1. r \in [RegName -> Byte] /\ "r" \in DOMAIN z
  BY DEF IsProcessor
<1>2. Holding(z, z.r["H"], z.r["L"]) = [z EXCEPT !.r = q]
  BY <1>1, HoldingAs
<1> HIDE DEF r
<1>3. q = r
  BY <1>1
<1>4. [z EXCEPT !.r = r] = z
  BY DEF r
<1>5. QED BY <1>2, <1>3, <1>4

\* The names of pairs that are not HL.
Others == (RegPair \ {"HL"}) \cup {"SP", "AF"}

LEMMA OthersSplit ==
  ASSUME NEW p \in RegPair \ {"HL"}
  PROVE  /\ p \notin {"SP", "AF"}
         /\ Hi[p] \in RegName \ {"H", "L"} /\ Lo[p] \in RegName \ {"H", "L"}
BY DEF RegPair, Hi, Lo, RegName

LEMMA HoldingReads ==
  ASSUME NEW z, Built(z), NEW h, NEW l
  PROVE  LET w == Holding(z, h, l)
         IN  /\ Imm8(w) = Imm8(z) /\ Imm16(w) = Imm16(z) /\ Top(w) = Top(z)
             /\ \A p \in Others : Pair16(w, p) = Pair16(z, p)
<1> DEFINE w == Holding(z, h, l)
<1>1. w.f = z.f /\ w.sp = z.sp /\ w.pc = z.pc /\ w.mem = z.mem
  BY HoldingIs
<1>2. \A n \in RegName \ {"H", "L"} : w.r[n] = z.r[n]
  BY HoldingIs
<1> HIDE DEF w
<1>3. Imm8(w) = Imm8(z) /\ Imm16(w) = Imm16(z) /\ Top(w) = Top(z)
  BY <1>1 DEF Imm8, Imm16, Top
<1>4. ASSUME NEW p \in RegPair \ {"HL"} PROVE Pair16(w, p) = Pair16(z, p)
  BY <1>2, OthersSplit DEF Pair16
<1>5. Pair16(w, "SP") = Pair16(z, "SP") /\ Pair16(w, "AF") = Pair16(z, "AF")
  BY <1>1, <1>2 DEF Pair16, RegName
<1>6. QED BY <1>3, <1>4, <1>5 DEF w, Others

LEMMA HoldingByte ==
  ASSUME NEW z, Built(z), NEW h, NEW l, NEW n, n \notin {"H", "L"}, NEW v
  PROVE  Set8(Holding(z, h, l), n, v) = Holding(Set8(z, n, v), h, l) /\ Built(Set8(z, n, v))
BY DEF Set8, Holding, Built

WithFlags(z, g) == [z EXCEPT !.f = g]
WithMemory(z, m) == [z EXCEPT !.mem = m]
WithStack(z, s) == [z EXCEPT !.sp = s]
WithCounter(z, a) == [z EXCEPT !.pc = a]

LEMMA HoldingFlags ==
  ASSUME NEW z, Built(z), NEW h, NEW l, NEW g
  PROVE  WithFlags(Holding(z, h, l), g) = Holding(WithFlags(z, g), h, l) /\ Built(WithFlags(z, g))
BY DEF Holding, Built, WithFlags

LEMMA HoldingMemory ==
  ASSUME NEW z, Built(z), NEW h, NEW l, NEW m
  PROVE  WithMemory(Holding(z, h, l), m) = Holding(WithMemory(z, m), h, l) /\ Built(WithMemory(z, m))
BY DEF Holding, Built, WithMemory

LEMMA HoldingPointer ==
  ASSUME NEW z, Built(z), NEW h, NEW l, NEW s
  PROVE  WithStack(Holding(z, h, l), s) = Holding(WithStack(z, s), h, l) /\ Built(WithStack(z, s))
BY DEF Holding, Built, WithStack

LEMMA HoldingCounter ==
  ASSUME NEW z, Built(z), NEW h, NEW l, NEW a
  PROVE  WithCounter(Holding(z, h, l), a) = Holding(WithCounter(z, a), h, l) /\ Built(WithCounter(z, a))
BY DEF Holding, Built, WithCounter

LEMMA HoldingPut ==
  ASSUME NEW z, Built(z), NEW h, NEW l, NEW a, NEW v
  PROVE  Put(Holding(z, h, l), a, v) = Holding(Put(z, a, v), h, l) /\ Built(Put(z, a, v))
<1>1. Holding(z, h, l).mem = z.mem
  BY HoldingIs
<1>2. \A w : Put(w, a, v) = WithMemory(w, write(w.mem, a, v % 256))
  BY DEF Put, WithMemory
<1>3. QED BY <1>1, <1>2, HoldingMemory

LEMMA HoldingGoes ==
  ASSUME NEW z, Built(z), NEW h, NEW l, NEW k
  PROVE  /\ Skip(Holding(z, h, l), k) = Holding(Skip(z, k), h, l) /\ Built(Skip(z, k))
         /\ To(Holding(z, h, l), k) = Holding(To(z, k), h, l) /\ Built(To(z, k))
<1>1. Holding(z, h, l).pc = z.pc
  BY HoldingIs
<1>2. \A w : /\ Skip(w, k) = WithCounter(w, (w.pc + k) % 65536)
             /\ To(w, k) = WithCounter(w, k % 65536)
  BY DEF Skip, To, WithCounter
<1>3. QED BY <1>1, <1>2, HoldingCounter

LEMMA HoldingStack ==
  ASSUME NEW z, Built(z), NEW h, NEW l
  PROVE  /\ Pop(Holding(z, h, l)) = Holding(Pop(z), h, l) /\ Built(Pop(z))
         /\ \A v : Push(Holding(z, h, l), v) = Holding(Push(z, v), h, l) /\ Built(Push(z, v))
<1>1. Holding(z, h, l).sp = z.sp /\ Holding(z, h, l).mem = z.mem
  BY HoldingIs
<1>2. Pop(Holding(z, h, l)) = Holding(Pop(z), h, l) /\ Built(Pop(z))
  <2>1. \A w : Pop(w) = WithStack(w, (w.sp + 2) % 65536)
    BY DEF Pop, WithStack
  <2>2. QED BY <1>1, <2>1, HoldingPointer
<1>3. ASSUME NEW v PROVE Push(Holding(z, h, l), v) = Holding(Push(z, v), h, l) /\ Built(Push(z, v))
  <2>1. \A w : Push(w, v) = WithMemory(WithStack(w, (w.sp + 65534) % 65536),
                                       writeWord(w.mem, (w.sp + 65534) % 65536, v))
    BY DEF Push, WithStack, WithMemory
  <2>2. QED BY <1>1, <2>1, HoldingPointer, HoldingMemory
<1>4. QED BY <1>2, <1>3

LEMMA HoldingPair ==
  ASSUME NEW z, Built(z), NEW h, NEW l, NEW p \in Others, NEW v
  PROVE  Set16(Holding(z, h, l), p, v) = Holding(Set16(z, p, v), h, l) /\ Built(Set16(z, p, v))
<1>1. CASE p = "SP"
  <2>1. \A w : Set16(w, p, v) = WithStack(w, v % 65536)
    BY <1>1 DEF Set16, WithStack
  <2>2. QED BY <2>1, HoldingPointer
<1>2. CASE p = "AF"
  <2>1. \A w : Set16(w, p, v) = WithFlags(Set8(w, "A", v \div 256), FlagsOf(v % 256))
    BY <1>2 DEF Set16, Set8, WithFlags
  <2>2. QED BY <2>1, HoldingByte, HoldingFlags
<1>3. CASE p \in RegPair \ {"HL"}
  <2>1. \A w : Set16(w, p, v) = Set8(Set8(w, Hi[p], (v % 65536) \div 256), Lo[p], v % 256)
    BY <1>3, OthersSplit DEF Set16, Set8
  <2>2. QED BY <1>3, <2>1, OthersSplit, HoldingByte
<1>4. QED BY <1>1, <1>2, <1>3 DEF Others

\* Decoded after a prefix: H, L and HL stand for parts of IX and IY.
OffHL(d) == WellDecoded(d) /\ d.named # "HL" /\ d.pointed # "HL"

LEMMA NamesOffHL ==
  ASSUME NEW d, OffHL(d)
  PROVE  /\ \A n \in Reg8 \cup {"I"} : /\ In(d.named, n) \in RegName \ {"H", "L"}
                                       /\ In(d.pointed, n) \in RegName \ {"H", "L"}
         /\ \A p \in Wide4 \cup {"AF"} : Of(d.named, p) \in Others /\ Of(d.pointed, p) \in Others
         /\ d.named \in Others
<1>1. ASSUME NEW pair \in {"IX", "IY"}
      PROVE  /\ \A n \in Reg8 \cup {"I"} : In(pair, n) \in RegName \ {"H", "L"}
             /\ \A p \in Wide4 \cup {"AF"} : Of(pair, p) \in Others
             /\ pair \in Others
  BY DEF Reg8, RegName, Wide4, RegPair, Others, In, Of, Hi, Lo
<1>2. d.named \in {"IX", "IY"} /\ d.pointed \in {"IX", "IY"}
  BY DEF OffHL, WellDecoded, Pairs
<1>3. QED BY <1>1, <1>2

LEMMA AddressOffHL ==
  ASSUME NEW z, Built(z), NEW h, NEW l, NEW d, OffHL(d)
  PROVE  /\ Address(Holding(z, h, l), d) = Address(z, d)
         /\ After(Holding(z, h, l), d) = Holding(After(z, d), h, l)
         /\ AfterPointed(Holding(z, h, l), d) = Holding(AfterPointed(z, d), h, l)
         /\ Built(After(z, d)) /\ Built(AfterPointed(z, d))
<1> DEFINE w == Holding(z, h, l)
<1>1. Imm8(w) = Imm8(z) /\ \A p \in Others : Pair16(w, p) = Pair16(z, p)
  BY HoldingReads
<1>2. Skip(w, 1) = Holding(Skip(z, 1), h, l) /\ Built(Skip(z, 1))
  BY HoldingGoes
<1> HIDE DEF w
<1>3. Address(w, d) = Address(z, d)
  BY <1>1, NamesOffHL DEF Address
<1>4. /\ After(w, d) = Holding(After(z, d), h, l) /\ Built(After(z, d))
      /\ AfterPointed(w, d) = Holding(AfterPointed(z, d), h, l) /\ Built(AfterPointed(z, d))
  BY <1>2 DEF After, AfterPointed, w
<1>5. QED BY <1>3, <1>4 DEF w

LEMMA PointedOffHL ==
  ASSUME NEW z, Built(z), NEW h, NEW l, NEW d, OffHL(d), NEW p \in Pointers
  PROVE  Pointed(Holding(z, h, l), d, p) = Pointed(z, d, p)
<1> DEFINE w == Holding(z, h, l)
<1>1. Imm8(w) = Imm8(z) /\ \A q \in Others : Pair16(w, q) = Pair16(z, q)
  BY HoldingReads
<1> HIDE DEF w
<1>2. Pointer(p) \in Wide4
  BY DEF Pointer, Pointers, Wide4
<1>3. QED BY <1>1, <1>2, NamesOffHL DEF Pointed, w

\* The loads that do not mean H or L themselves.
NotMeant(d) ==
  ~(d.ins.op \in {"LD_R_ATRX", "LD_ATRX_R"} /\ {d.ins.x, d.ins.y} \cap {"H", "L"} # {})

LEMMA ByteLoadLeaves ==
  ASSUME NEW z, Built(z), NEW h, NEW l, NEW d, OffHL(d), d.ins.op \in ByteLoads, NotMeant(d), NEW any
  PROVE  LoadByte(Holding(z, h, l), d, any) = Holding(LoadByte(z, d, any), h, l)
<1> DEFINE w == Holding(z, h, l)
           x == d.ins.x
           y == d.ins.y
<1>1. LoadFits(d.ins)
  BY DEF OffHL, WellDecoded, Fits
<1>2. \A n \in RegName \ {"H", "L"} : w.r[n] = z.r[n]
  BY HoldingIs
<1>3. /\ w.mem = z.mem /\ w.f = z.f /\ w.iff2 = z.iff2
      /\ Imm8(w) = Imm8(z) /\ Imm16(w) = Imm16(z)
  BY HoldingIs, HoldingReads
<1>4. \A k : Skip(w, k) = Holding(Skip(z, k), h, l) /\ Built(Skip(z, k))
  BY HoldingGoes
<1>5. /\ Address(w, d) = Address(z, d)
      /\ After(w, d) = Holding(After(z, d), h, l) /\ Built(After(z, d))
      /\ AfterPointed(w, d) = Holding(AfterPointed(z, d), h, l) /\ Built(AfterPointed(z, d))
      /\ \A p \in Pointers : Pointed(w, d, p) = Pointed(z, d, p)
  BY AddressOffHL, PointedOffHL
<1>6. {"A", "I"} \subseteq RegName \ {"H", "L"} /\ Reg8 \ {"H", "L"} \subseteq RegName \ {"H", "L"}
  BY DEF RegName, Reg8
<1> HIDE DEF w
<1>7. CASE d.ins.op = "LD_R_R"
  <2>1. \A u : LoadByte(u, d, any) =
                 IF x = "R" THEN u ELSE Set8(u, In(d.named, x), u.r[In(d.named, y)])
    BY <1>7 DEF LoadByte
  <2>2. x # "R" => In(d.named, x) \in RegName \ {"H", "L"}
    BY <1>1, <1>7, NamesOffHL DEF LoadFits
  <2>3. In(d.named, y) \in RegName \ {"H", "L"}
    BY <1>1, <1>7, NamesOffHL DEF LoadFits
  <2>4. QED BY <1>2, <2>1, <2>2, <2>3, HoldingByte DEF w
<1>8. CASE d.ins.op = "LDS_A_R"
  <2> DEFINE v == IF y = "R" THEN any ELSE z.r["I"]
             g == [s |-> Bit(v, 128), z |-> Yes(v = 0), h |-> 0, p |-> z.iff2, n |-> 0, c |-> z.f.c]
  <2>1. LoadByte(z, d, any) = WithFlags(Set8(z, "A", v), g)
    BY <1>8 DEF LoadByte, LDS_A_R, WithFlags
  <2>2. LoadByte(w, d, any) = WithFlags(Set8(w, "A", v), g)
    BY <1>2, <1>3, <1>6, <1>8 DEF LoadByte, LDS_A_R, WithFlags
  <2> HIDE DEF v, g
  <2>3. QED BY <2>1, <2>2, HoldingByte, HoldingFlags DEF w
<1>9. CASE d.ins.op = "LD_R_b"
  <2>1. \A u : LoadByte(u, d, any) = Set8(Skip(u, 1), In(d.named, x), Imm8(u))
    BY <1>9 DEF LoadByte
  <2>2. In(d.named, x) \in RegName \ {"H", "L"}
    BY <1>1, <1>9, NamesOffHL DEF LoadFits
  <2>3. QED BY <1>3, <1>4, <2>1, <2>2, HoldingByte DEF w
<1>10. CASE d.ins.op = "LD_R_ATRX"
  <2>1. \A u : LoadByte(u, d, any) = Set8(AfterPointed(u, d), x, read(u.mem, Pointed(u, d, y)))
    BY <1>10 DEF LoadByte, LD_R_ATRX
  <2>2. y \in Pointers /\ x \notin {"H", "L"}
    BY <1>1, <1>10 DEF LoadFits, NotMeant
  <2>3. QED BY <1>3, <1>5, <2>1, <2>2, HoldingByte DEF w
<1>11. CASE d.ins.op = "LD_ATRX_R"
  <2>1. \A u : LoadByte(u, d, any) = Put(AfterPointed(u, d), Pointed(u, d, x), u.r[y])
    BY <1>11 DEF LoadByte, LD_ATRX_R
  <2>2. x \in Pointers /\ y \in Reg8 \ {"H", "L"}
    BY <1>1, <1>11 DEF LoadFits, NotMeant
  <2>3. QED BY <1>2, <1>5, <1>6, <2>1, <2>2, HoldingPut DEF w
<1>12. CASE d.ins.op = "LD_ATRX_b"
  <2> DEFINE u == After(z, d)
  <2>1. \A t : LoadByte(t, d, any) = Put(Skip(After(t, d), 1), Address(t, d), Imm8(After(t, d)))
    BY <1>12 DEF LoadByte, LD_ATRX_b
  <2>2. After(w, d) = Holding(u, h, l) /\ Built(u)
    BY <1>5
  <2> HIDE DEF u
  <2>3. Imm8(Holding(u, h, l)) = Imm8(u)
    BY <2>2, HoldingReads
  <2>4. Skip(Holding(u, h, l), 1) = Holding(Skip(u, 1), h, l) /\ Built(Skip(u, 1))
    BY <2>2, HoldingGoes
  <2>5. LoadByte(w, d, any) = Put(Holding(Skip(u, 1), h, l), Address(z, d), Imm8(u))
    BY <1>5, <2>1, <2>2, <2>3, <2>4
  <2>6. LoadByte(z, d, any) = Put(Skip(u, 1), Address(z, d), Imm8(u))
    BY <2>1 DEF u
  <2>7. QED BY <2>4, <2>5, <2>6, HoldingPut DEF w
<1>13. CASE d.ins.op = "LD_R_ATw"
  <2>1. \A u : LoadByte(u, d, any) = Set8(Skip(u, 2), x, read(u.mem, Imm16(u)))
    BY <1>13 DEF LoadByte
  <2>2. x \notin {"H", "L"}
    BY <1>1, <1>13 DEF LoadFits
  <2>3. QED BY <1>3, <1>4, <2>1, <2>2, HoldingByte DEF w
<1>14. CASE d.ins.op = "LD_ATw_R"
  <2>1. \A u : LoadByte(u, d, any) = Put(Skip(u, 2), Imm16(u), u.r[y])
    BY <1>14 DEF LoadByte
  <2>2. y = "A"
    BY <1>1, <1>14 DEF LoadFits
  <2>3. QED BY <1>2, <1>3, <1>4, <1>6, <2>1, <2>2, HoldingPut DEF w
<1>15. QED BY <1>7, <1>8, <1>9, <1>10, <1>11, <1>12, <1>13, <1>14 DEF ByteLoads, w

LEMMA WordLoadLeaves ==
  ASSUME NEW z, Built(z), NEW h, NEW l, NEW d, OffHL(d), d.ins.op \in WordLoads
  PROVE  LoadWord(Holding(z, h, l), d) = Holding(LoadWord(z, d), h, l)
<1> DEFINE w == Holding(z, h, l)
           to == Of(d.named, d.ins.x)
           from == Of(d.named, d.ins.y)
<1>1. /\ d.ins.op \in {"LD_RX_w", "LD_RX_ATw", "LD_RX_RX", "PUSH_RX", "POP_RX"} => to \in Others
      /\ d.ins.op \in {"LD_ATw_RX", "LD_RX_RX"} => from \in Others
  <2>1. LoadFits(d.ins)
    BY DEF OffHL, WellDecoded, Fits
  <2>2. QED BY <2>1, NamesOffHL DEF LoadFits
<1>2. w.mem = z.mem /\ Imm16(w) = Imm16(z) /\ Top(w) = Top(z)
  BY HoldingIs, HoldingReads
<1>3. \A p \in Others : Pair16(w, p) = Pair16(z, p)
  BY HoldingReads
<1>4. Skip(w, 2) = Holding(Skip(z, 2), h, l) /\ Built(Skip(z, 2))
  BY HoldingGoes
<1>5. /\ Pop(w) = Holding(Pop(z), h, l) /\ Built(Pop(z))
      /\ \A v : Push(w, v) = Holding(Push(z, v), h, l)
  BY HoldingStack
<1> HIDE DEF w, to, from
<1>6. CASE d.ins.op = "LD_RX_w"
  <2>1. \A u : LoadWord(u, d) = Set16(Skip(u, 2), to, Imm16(u))
    BY <1>6 DEF LoadWord, to
  <2>2. QED BY <1>1, <1>2, <1>4, <1>6, <2>1, HoldingPair DEF w
<1>7. CASE d.ins.op = "LD_RX_ATw"
  <2>1. \A u : LoadWord(u, d) = Set16(Skip(u, 2), to, readWord(u.mem, Imm16(u)))
    BY <1>7 DEF LoadWord, to
  <2>2. QED BY <1>1, <1>2, <1>4, <1>7, <2>1, HoldingPair DEF w
<1>8. CASE d.ins.op = "LD_ATw_RX"
  <2> DEFINE y == Skip(z, 2)
  <2>1. \A u : LoadWord(u, d) =
                 WithMemory(Skip(u, 2), writeWord(Skip(u, 2).mem, Imm16(u), Pair16(u, from)))
    BY <1>8 DEF LoadWord, WithMemory, from
  <2>2. Holding(y, h, l).mem = y.mem
    BY <1>4, HoldingIs
  <2> HIDE DEF y
  <2>3. QED BY <1>1, <1>2, <1>3, <1>4, <1>8, <2>1, <2>2, HoldingMemory DEF w, y
<1>9. CASE d.ins.op = "LD_RX_RX"
  <2>1. \A u : LoadWord(u, d) = Set16(u, to, Pair16(u, from))
    BY <1>9 DEF LoadWord, to, from
  <2>2. QED BY <1>1, <1>3, <1>9, <2>1, HoldingPair DEF w
<1>10. CASE d.ins.op = "PUSH_RX"
  <2>1. \A u : LoadWord(u, d) = Push(u, Pair16(u, to))
    BY <1>10 DEF LoadWord, to
  <2>2. QED BY <1>1, <1>3, <1>5, <1>10, <2>1 DEF w
<1>11. CASE d.ins.op = "POP_RX"
  <2>1. \A u : LoadWord(u, d) = Set16(Pop(u), to, Top(u))
    BY <1>11 DEF LoadWord, to
  <2>2. QED BY <1>1, <1>2, <1>5, <1>11, <2>1, HoldingPair DEF w
<1>12. QED BY <1>6, <1>7, <1>8, <1>9, <1>10, <1>11 DEF WordLoads, w

WithAF(z, v) == [z EXCEPT !.alt.af = v]

LEMMA HoldingAF ==
  ASSUME NEW z, Built(z), NEW h, NEW l, NEW v
  PROVE  WithAF(Holding(z, h, l), v) = Holding(WithAF(z, v), h, l) /\ Built(WithAF(z, v))
BY DEF Holding, Built, WithAF

LEMMA ExchangeLeaves ==
  ASSUME NEW z, Built(z), NEW h, NEW l, NEW d, OffHL(d), d.ins.op \in Exchanges \ {"EXX"}
  PROVE  Exchange(Holding(z, h, l), d) = Holding(Exchange(z, d), h, l)
<1> DEFINE w == Holding(z, h, l)
<1>1. w.mem = z.mem /\ w.alt = z.alt /\ w.sp = z.sp /\ Top(w) = Top(z)
  BY HoldingIs, HoldingReads
<1>2. \A p \in Others : Pair16(w, p) = Pair16(z, p)
  BY HoldingReads
<1>3. d.named \in Others /\ "DE" \in Others /\ "AF" \in Others
  BY NamesOffHL DEF Others, RegPair
<1> HIDE DEF w
<1>4. CASE d.ins.op = "EX_RX_RX"
  <2>1. \A u : Exchange(u, d) = Set16(Set16(u, "DE", Pair16(u, d.named)), d.named, Pair16(u, "DE"))
    BY <1>4 DEF Exchange, Swapped
  <2>2. QED BY <1>2, <1>3, <2>1, HoldingPair DEF w
<1>5. CASE d.ins.op = "EX_AF_AFP"
  <2>1. \A u : Exchange(u, d) = Set16(WithAF(u, Pair16(u, "AF")), "AF", u.alt.af)
    BY <1>5 DEF Exchange, WithAF
  <2>2. QED BY <1>1, <1>2, <1>3, <2>1, HoldingPair, HoldingAF DEF w
<1>6. CASE d.ins.op = "EX_ATRX_RX"
  <2> DEFINE v == Top(z)
             y == Set16(z, d.named, v)
  <2>1. \A u : Exchange(u, d) = WithMemory(Set16(u, d.named, Top(u)),
                  writeWord(Set16(u, d.named, Top(u)).mem, u.sp, Pair16(u, d.named)))
    BY <1>6 DEF Exchange, WithMemory
  <2>2. Set16(w, d.named, v) = Holding(y, h, l) /\ Built(y)
    BY <1>3, HoldingPair DEF w
  <2> HIDE DEF y
  <2>3. Holding(y, h, l).mem = y.mem
    BY <2>2, HoldingIs
  <2>4. QED BY <1>1, <1>2, <1>3, <2>1, <2>2, <2>3, HoldingMemory DEF w, y
<1>7. QED BY <1>4, <1>5, <1>6 DEF Exchanges, w

LEMMA AccumulatorLeaves ==
  ASSUME NEW z, Built(z), NEW h, NEW l, NEW d, OffHL(d), d.ins.op \in Operations
  PROVE  OnAccumulator(Holding(z, h, l), d) = Holding(OnAccumulator(z, d), h, l)
<1> DEFINE w == Holding(z, h, l)
           Moved8(u) == IF d.ins.x = "n" THEN Skip(u, 1)
                        ELSE IF d.ins.x = "(HL)" THEN After(u, d) ELSE u
           Res(u) == Computed(d.ins.op, u.r["A"], Operand8(u, d), u.f)
<1>1. \A n \in RegName \ {"H", "L"} : w.r[n] = z.r[n]
  BY HoldingIs
<1>2. w.mem = z.mem /\ w.f = z.f /\ Imm8(w) = Imm8(z) /\ Address(w, d) = Address(z, d)
  BY HoldingIs, HoldingReads, AddressOffHL
<1>3. Skip(w, 1) = Holding(Skip(z, 1), h, l) /\ After(w, d) = Holding(After(z, d), h, l)
  BY HoldingGoes, AddressOffHL
<1>4. Built(Skip(z, 1)) /\ Built(After(z, d))
  BY HoldingGoes, AddressOffHL
<1> HIDE DEF w
<1>5. Operand8(w, d) = Operand8(z, d)
  <2>1. d.ins.x \notin {"n", "(HL)"} => In(d.pointed, d.ins.x) \in RegName \ {"H", "L"}
    <3>1. d.ins.x \in Reg8 \cup {"(HL)", "n"}
      BY DEF OffHL, WellDecoded, Fits, OtherFits
    <3>2. QED BY <3>1, NamesOffHL
  <2>2. QED BY <1>1, <1>2, <2>1 DEF Operand8
<1>6. Res(w) = Res(z)
  <2>1. "A" \in RegName \ {"H", "L"}
    BY DEF RegName
  <2>2. QED BY <1>1, <1>2, <1>5, <2>1
<1>7. Moved8(w) = Holding(Moved8(z), h, l) /\ Built(Moved8(z))
  BY <1>3, <1>4 DEF w
<1>8. \A u : OnAccumulator(u, d) = WithFlags(Set8(Moved8(u), "A", Res(u).r), Res(u).f)
  BY DEF OnAccumulator, WithFlags
<1> HIDE DEF Moved8, Res
<1>9. QED BY <1>6, <1>7, <1>8, HoldingByte, HoldingFlags DEF w

LEMMA GeneralLeaves ==
  ASSUME NEW z, Built(z), NEW h, NEW l, NEW d, d.ins.op \in Generals \ {"RLD", "RRD"}
  PROVE  General(Holding(z, h, l), d) = Holding(General(z, d), h, l)
<1> DEFINE w == Holding(z, h, l)
           Res(a, f) == CASE d.ins.op = "DAA" -> DAA(a, f)
               [] d.ins.op = "CPL" -> CPL(a, f)
               [] d.ins.op = "NEG" -> NEG(a)
               [] d.ins.op = "SCF" -> [r |-> a, f |-> SCF(f)]
               [] d.ins.op = "CCF" -> [r |-> a, f |-> CCF(f)]
               [] d.ins.op = "RLCA" -> Rotated(f, RLC(a))
               [] d.ins.op = "RRCA" -> Rotated(f, RRC(a))
               [] d.ins.op = "RLA" -> Rotated(f, RL(a, f))
               [] d.ins.op = "RRA" -> Rotated(f, RR(a, f))
<1>1. w.r["A"] = z.r["A"] /\ w.f = z.f
  BY HoldingIs DEF RegName
<1>2. ASSUME NEW u
      PROVE  General(u, d) = WithFlags(Set8(u, "A", Res(u.r["A"], u.f).r), Res(u.r["A"], u.f).f)
  <2>1. CASE d.ins.op = "DAA"
    BY <2>1 DEF General, WithFlags
  <2>2. CASE d.ins.op = "CPL"
    BY <2>2 DEF General, WithFlags
  <2>3. CASE d.ins.op = "NEG"
    BY <2>3 DEF General, WithFlags
  <2>4. CASE d.ins.op = "SCF"
    BY <2>4 DEF General, WithFlags
  <2>5. CASE d.ins.op = "CCF"
    BY <2>5 DEF General, WithFlags
  <2>6. CASE d.ins.op = "RLCA"
    BY <2>6 DEF General, WithFlags
  <2>7. CASE d.ins.op = "RRCA"
    BY <2>7 DEF General, WithFlags
  <2>8. CASE d.ins.op = "RLA"
    BY <2>8 DEF General, WithFlags
  <2>9. CASE d.ins.op = "RRA"
    BY <2>9 DEF General, WithFlags
  <2>10. QED
    BY <2>1, <2>2, <2>3, <2>4, <2>5, <2>6, <2>7, <2>8, <2>9 DEF Generals
<1> HIDE DEF Res, w
<1>3. QED BY <1>1, <1>2, HoldingByte, HoldingFlags DEF w

LEMMA OperandLeaves ==
  ASSUME NEW z, Built(z), NEW h, NEW l, NEW d, OffHL(d), d.ins.op \in Changes
  PROVE  OnOperand(Holding(z, h, l), d) = Holding(OnOperand(z, d), h, l)
<1> DEFINE w == Holding(z, h, l)
           reg == In(IF d.ins.op \in {"INC", "DEC"} THEN d.named ELSE d.pointed, d.ins.x)
<1>1. \A n \in RegName \ {"H", "L"} : w.r[n] = z.r[n]
  BY HoldingIs
<1>2. w.mem = z.mem /\ w.f = z.f /\ Address(w, d) = Address(z, d)
  BY HoldingIs, AddressOffHL
<1>3. After(w, d) = Holding(After(z, d), h, l) /\ Built(After(z, d))
  BY AddressOffHL
<1>4. d.ins.x # "(HL)" => reg \in RegName \ {"H", "L"}
  <2>1. d.ins.x \in Reg8 \cup {"(HL)"}
    BY DEF OffHL, WellDecoded, Fits, OtherFits
  <2>2. QED BY <2>1, NamesOffHL
<1> HIDE DEF w, reg
<1>5. CASE d.ins.x = "(HL)"
  <2> DEFINE Res(u) == Changed(d.ins.op, read(u.mem, Address(u, d)), u.f)
  <2>1. \A u : OnOperand(u, d) = WithFlags(Put(After(u, d), Address(u, d), Res(u).r), Res(u).f)
    BY <1>5 DEF OnOperand, WithFlags
  <2>2. Res(w) = Res(z)
    BY <1>2
  <2> HIDE DEF Res
  <2>3. QED BY <1>2, <1>3, <2>1, <2>2, HoldingPut, HoldingFlags DEF w
<1>6. CASE d.ins.x # "(HL)"
  <2> DEFINE Res(u) == Changed(d.ins.op, u.r[reg], u.f)
  <2>1. \A u : OnOperand(u, d) = WithFlags(Set8(u, reg, Res(u).r), Res(u).f)
    BY <1>6 DEF OnOperand, WithFlags, reg
  <2>2. Res(w) = Res(z)
    BY <1>1, <1>2, <1>4, <1>6
  <2> HIDE DEF Res
  <2>3. QED BY <1>4, <1>6, <2>1, <2>2, HoldingByte, HoldingFlags DEF w
<1>7. QED BY <1>5, <1>6 DEF w

LEMMA OneBitLeaves ==
  ASSUME NEW z, Built(z), NEW h, NEW l, NEW d, OffHL(d), d.ins.op \in Bits
  PROVE  OnOneBit(Holding(z, h, l), d) = Holding(OnOneBit(z, d), h, l)
<1> DEFINE w == Holding(z, h, l)
           reg == In(d.pointed, d.ins.y)
           atHL == d.ins.y = "(HL)"
           Old(u) == IF atHL THEN read(u.mem, Address(u, d)) ELSE u.r[reg]
           b == Weight(d.ins.x)
           New(v) == CASE d.ins.op = "SET" -> v + b * (1 - Bit(v, b))
                       [] d.ins.op = "RES" -> v - b * Bit(v, b)
                       [] d.ins.op = "BIT" -> v
           g(v, f) == [s |-> IF b = 128 THEN Yes(Bit(v, b) = 1) ELSE 0, z |-> 1 - Yes(Bit(v, b) = 1),
                       h |-> 1, p |-> 1 - Yes(Bit(v, b) = 1), n |-> 0, c |-> f.c]
<1>1. \A n \in RegName \ {"H", "L"} : w.r[n] = z.r[n]
  BY HoldingIs
<1>2. w.mem = z.mem /\ w.f = z.f /\ Address(w, d) = Address(z, d)
  BY HoldingIs, AddressOffHL
<1>3. ~atHL => reg \in RegName \ {"H", "L"}
  <2>1. d.ins.y \in Reg8 \cup {"(HL)"}
    BY DEF OffHL, WellDecoded, Fits, OtherFits
  <2>2. QED BY <2>1, NamesOffHL
<1> HIDE DEF w, reg
<1>4. Old(w) = Old(z)
  BY <1>1, <1>2, <1>3
<1>5. \A u : OnOneBit(u, d) = IF d.ins.op = "BIT" THEN WithFlags(u, g(Old(u), u.f))
                              ELSE IF atHL THEN Put(u, Address(u, d), New(Old(u)))
                              ELSE Set8(u, reg, New(Old(u)))
  BY DEF OnOneBit, WithFlags, reg
<1> HIDE DEF Old, New, g, b
<1>6. QED BY <1>2, <1>3, <1>4, <1>5, HoldingPut, HoldingFlags, HoldingByte DEF w

LEMMA WideLeaves ==
  ASSUME NEW z, Built(z), NEW h, NEW l, NEW d, OffHL(d), d.ins.op \in Wides
  PROVE  Arithmetic16(Holding(z, h, l), d) = Holding(Arithmetic16(z, d), h, l)
<1> DEFINE w == Holding(z, h, l)
           to == Of(d.named, d.ins.x)
           Y(u) == IF d.ins.y = "" THEN 1 ELSE Pair16(u, Of(d.named, d.ins.y))
           Res(x, y, f) == CASE d.ins.op = "ADD_RX_RX" -> ADD16(x, y, f)
                             [] d.ins.op = "ADC_RX_RX" -> ADC16(x, y, f)
                             [] d.ins.op = "SBC_RX_RX" -> SBC16(x, y, f)
                             [] d.ins.op = "INC_RX" -> [r |-> x + 1, f |-> f]
                             [] d.ins.op = "DEC_RX" -> [r |-> x + 65535, f |-> f]
<1>1. to \in Others /\ (d.ins.y # "" => Of(d.named, d.ins.y) \in Others)
  <2>1. d.ins.x \in Wide4 /\ d.ins.y \in Wide4 \cup {""}
    BY DEF OffHL, WellDecoded, Fits, OtherFits
  <2>2. QED BY <2>1, NamesOffHL
<1>2. w.f = z.f
  BY HoldingIs
<1>3. \A p \in Others : Pair16(w, p) = Pair16(z, p)
  BY HoldingReads
<1> HIDE DEF w, to
<1>4. Y(w) = Y(z) /\ Pair16(w, to) = Pair16(z, to)
  BY <1>1, <1>3
<1>5. ASSUME NEW u
      PROVE  Arithmetic16(u, d) =
               WithFlags(Set16(u, to, Res(Pair16(u, to), Y(u), u.f).r), Res(Pair16(u, to), Y(u), u.f).f)
  <2>1. CASE d.ins.op = "ADD_RX_RX"
    BY <2>1 DEF Arithmetic16, WithFlags, to
  <2>2. CASE d.ins.op = "ADC_RX_RX"
    BY <2>2 DEF Arithmetic16, WithFlags, to
  <2>3. CASE d.ins.op = "SBC_RX_RX"
    BY <2>3 DEF Arithmetic16, WithFlags, to
  <2>4. CASE d.ins.op = "INC_RX"
    BY <2>4 DEF Arithmetic16, WithFlags, to
  <2>5. CASE d.ins.op = "DEC_RX"
    BY <2>5 DEF Arithmetic16, WithFlags, to
  <2> HIDE DEF Res, Y
  <2>6. QED BY <2>1, <2>2, <2>3, <2>4, <2>5 DEF Wides
<1> DEFINE res == Res(Pair16(z, to), Y(z), z.f)
<1> HIDE DEF Res, Y
<1>6. /\ Arithmetic16(w, d) = WithFlags(Set16(w, to, res.r), res.f)
      /\ Arithmetic16(z, d) = WithFlags(Set16(z, to, res.r), res.f)
  BY <1>2, <1>4, <1>5
<1> HIDE DEF res
<1>7. Set16(w, to, res.r) = Holding(Set16(z, to, res.r), h, l) /\ Built(Set16(z, to, res.r))
  <2> HIDE DEF Others
  <2> DEFINE v == res.r
  <2> HIDE DEF v
  <2>1. to \in Others
    BY <1>1
  <2>2. Set16(w, to, v) = Holding(Set16(z, to, v), h, l) /\ Built(Set16(z, to, v))
    BY <2>1, HoldingPair DEF w
  <2>3. QED BY <2>2 DEF v
<1>8. QED BY <1>6, <1>7, HoldingFlags DEF w

LEMMA JumpLeaves ==
  ASSUME NEW z, Built(z), NEW h, NEW l, NEW d, OffHL(d), d.ins.op \in Jumps
  PROVE  Jump(Holding(z, h, l), d) = Holding(Jump(z, d), h, l)
<1> DEFINE w == Holding(z, h, l)
           b == (z.r["B"] + 255) % 256
           back == z.pc + 1 + Signed(Imm8(z))
<1>1. w.f = z.f /\ w.pc = z.pc /\ w.r["B"] = z.r["B"]
  BY HoldingIs DEF RegName
<1>2. Imm8(w) = Imm8(z) /\ Imm16(w) = Imm16(z) /\ Pair16(w, d.named) = Pair16(z, d.named)
  BY HoldingReads, NamesOffHL
<1>3. \A k : /\ Skip(w, k) = Holding(Skip(z, k), h, l) /\ Built(Skip(z, k))
             /\ To(w, k) = Holding(To(z, k), h, l) /\ Built(To(z, k))
  BY HoldingGoes
<1> HIDE DEF w
<1>4. CASE d.ins.op = "JP"
  <2>1. \A u : Jump(u, d) = IF Holds(u.f, d.ins.x) THEN To(u, Imm16(u)) ELSE Skip(u, 2)
    BY <1>4 DEF Jump
  <2>2. QED BY <1>1, <1>2, <1>3, <2>1 DEF w
<1>5. CASE d.ins.op = "JR"
  <2>1. \A u : Jump(u, d) = IF Holds(u.f, d.ins.x) THEN To(u, u.pc + 1 + Signed(Imm8(u)))
                            ELSE Skip(u, 1)
    BY <1>5 DEF Jump
  <2>2. QED BY <1>1, <1>2, <1>3, <2>1 DEF w
<1>6. CASE d.ins.op = "DJNZ"
  <2>1. /\ Jump(z, d) = Set8(IF b # 0 THEN To(z, back) ELSE Skip(z, 1), "B", b)
        /\ Jump(w, d) = Set8(IF b # 0 THEN To(w, back) ELSE Skip(w, 1), "B", b)
    BY <1>1, <1>2, <1>6 DEF Jump
  <2> HIDE DEF b, back
  <2>2. QED BY <1>3, <2>1, HoldingByte DEF w
<1>7. CASE d.ins.op = "JP_ATRX"
  <2>1. \A u : Jump(u, d) = To(u, Pair16(u, d.named))
    BY <1>7 DEF Jump
  <2>2. QED BY <1>2, <1>3, <2>1 DEF w
<1>8. QED BY <1>4, <1>5, <1>6, <1>7 DEF Jumps, w

WithEnabled(z, i) == [z EXCEPT !.iff1 = i]
WithBoth(z, i, j) == [z EXCEPT !.iff1 = i, !.iff2 = j]
WithDelay(z, i) == [z EXCEPT !.iff2 = i]
WithInterruptMode(z, i) == [z EXCEPT !.im = i]
WithRequest(z, i) == [z EXCEPT !.irq = i]
WithMode(z, m) == [z EXCEPT !.mode = m]

LEMMA HoldingEnabled ==
  ASSUME NEW z, Built(z), NEW h, NEW l, NEW i
  PROVE  WithEnabled(Holding(z, h, l), i) = Holding(WithEnabled(z, i), h, l)
BY DEF Holding, Built, WithEnabled

LEMMA HoldingBoth ==
  ASSUME NEW z, Built(z), NEW h, NEW l, NEW i, NEW j
  PROVE  WithBoth(Holding(z, h, l), i, j) = Holding(WithBoth(z, i, j), h, l) /\ Built(WithBoth(z, i, j))
BY DEF Holding, Built, WithBoth

LEMMA HoldingDelay ==
  ASSUME NEW z, Built(z), NEW h, NEW l, NEW i
  PROVE  WithDelay(Holding(z, h, l), i) = Holding(WithDelay(z, i), h, l) /\ Built(WithDelay(z, i))
BY DEF Holding, Built, WithDelay

LEMMA HoldingInterruptMode ==
  ASSUME NEW z, Built(z), NEW h, NEW l, NEW i
  PROVE  WithInterruptMode(Holding(z, h, l), i) = Holding(WithInterruptMode(z, i), h, l)
BY DEF Holding, Built, WithInterruptMode

LEMMA HoldingRequest ==
  ASSUME NEW z, Built(z), NEW h, NEW l, NEW i
  PROVE  WithRequest(Holding(z, h, l), i) = Holding(WithRequest(z, i), h, l) /\ Built(WithRequest(z, i))
BY DEF Holding, Built, WithRequest

LEMMA HoldingMode ==
  ASSUME NEW z, Built(z), NEW h, NEW l, NEW m
  PROVE  WithMode(Holding(z, h, l), m) = Holding(WithMode(z, m), h, l)
BY DEF Holding, Built, WithMode

LEMMA CallLeaves ==
  ASSUME NEW z, Built(z), NEW h, NEW l, NEW d, d.ins.op \in Calls \cup Returns
  PROVE  CallOrReturn(Holding(z, h, l), d) = Holding(CallOrReturn(z, d), h, l)
<1> DEFINE w == Holding(z, h, l)
<1>1. w.f = z.f /\ w.pc = z.pc /\ w.iff2 = z.iff2 /\ Imm16(w) = Imm16(z) /\ Top(w) = Top(z)
  BY HoldingIs, HoldingReads
<1>2. Skip(w, 2) = Holding(Skip(z, 2), h, l) /\ Built(Skip(z, 2))
  BY HoldingGoes
<1>3. Pop(w) = Holding(Pop(z), h, l) /\ Built(Pop(z))
  BY HoldingStack
<1>4. \A a : To(Pop(w), a) = Holding(To(Pop(z), a), h, l) /\ Built(To(Pop(z), a))
  BY <1>3, HoldingGoes
<1> HIDE DEF w
<1>5. CASE d.ins.op = "CALL"
  <2> DEFINE y == Skip(z, 2)
             Called(u, a) == To(Push(u, u.pc), a)
  <2>1. \A u : CallOrReturn(u, d) =
                 IF Holds(u.f, d.ins.x) THEN Called(Skip(u, 2), Imm16(u)) ELSE Skip(u, 2)
    BY <1>5 DEF CallOrReturn
  <2>2. ASSUME NEW a PROVE Called(Holding(y, h, l), a) = Holding(Called(y, a), h, l)
    <3>1. Holding(y, h, l).pc = y.pc
      BY <1>2, HoldingIs
    <3>2. Push(Holding(y, h, l), y.pc) = Holding(Push(y, y.pc), h, l) /\ Built(Push(y, y.pc))
      BY <1>2, HoldingStack
    <3>3. QED BY <3>1, <3>2, HoldingGoes
  <2> HIDE DEF Called
  <2>3. QED BY <1>1, <1>2, <2>1, <2>2 DEF w
<1>6. CASE d.ins.op = "RST"
  <2>1. \A u : CallOrReturn(u, d) = To(Push(u, u.pc), d.ins.x)
    BY <1>6 DEF CallOrReturn
  <2>2. Push(w, z.pc) = Holding(Push(z, z.pc), h, l) /\ Built(Push(z, z.pc))
    BY HoldingStack DEF w
  <2>3. QED BY <1>1, <2>1, <2>2, HoldingGoes DEF w
<1>7. CASE d.ins.op = "RET"
  <2>1. \A u : CallOrReturn(u, d) = IF Holds(u.f, d.ins.x) THEN To(Pop(u), Top(u)) ELSE u
    BY <1>7 DEF CallOrReturn
  <2>2. QED BY <1>1, <1>4, <2>1 DEF w
<1>8. CASE d.ins.op = "RETI"
  <2>1. \A u : CallOrReturn(u, d) = To(Pop(u), Top(u))
    BY <1>8 DEF CallOrReturn
  <2>2. QED BY <1>1, <1>4, <2>1 DEF w
<1>9. CASE d.ins.op = "RETN"
  <2>1. \A u : CallOrReturn(u, d) = WithEnabled(To(Pop(u), Top(u)), u.iff2)
    BY <1>9 DEF CallOrReturn, WithEnabled
  <2>2. QED BY <1>1, <1>4, <2>1, HoldingEnabled DEF w
<1>10. QED BY <1>5, <1>6, <1>7, <1>8, <1>9 DEF Calls, Returns, w

LEMMA ReadLeaves ==
  ASSUME NEW z, Built(z), NEW h, NEW l, NEW port
  PROVE  Read(Holding(z, h, l), port) = Holding(Read(z, port), h, l) /\ Built(Read(z, port))
<1>1. \A u : Read(u, port) = IF port % 2 = 1 THEN WithRequest(u, 0) ELSE u
  BY DEF Read, WithRequest
<1>2. QED BY <1>1, HoldingRequest

LEMMA InOutLeaves ==
  ASSUME NEW z, Built(z), NEW h, NEW l, NEW d, OffHL(d), d.ins.op \in Ports, NEW any
  PROVE  InOut(Holding(z, h, l), d, any) = Holding(InOut(z, d, any), h, l)
<1> DEFINE w == Holding(z, h, l)
<1>1. Imm8(w) = Imm8(z) /\ w.r["C"] = z.r["C"]
  BY HoldingIs, HoldingReads DEF RegName
<1>2. Skip(w, 1) = Holding(Skip(z, 1), h, l) /\ Built(Skip(z, 1))
  BY HoldingGoes
<1> HIDE DEF w
<1>3. CASE d.ins.op = "IN_R_ATb"
  <2>1. \A u : InOut(u, d, any) = Set8(Read(Skip(u, 1), Imm8(u)), "A", any)
    BY <1>3 DEF InOut
  <2>2. QED BY <1>1, <1>2, <2>1, ReadLeaves, HoldingByte DEF w
<1>4. CASE d.ins.op = "IN_R_ATR"
  <2> DEFINE reg == In(d.pointed, d.ins.x)
  <2>1. \A u : InOut(u, d, any) = WithFlags(Set8(Read(u, u.r["C"]), reg, any), OR(any, any).f)
    BY <1>4 DEF InOut, WithFlags
  <2>2. reg \in RegName \ {"H", "L"}
    BY <1>4, NamesOffHL DEF OffHL, WellDecoded, Fits, OtherFits
  <2> HIDE DEF reg
  <2>3. QED BY <1>1, <2>1, <2>2, ReadLeaves, HoldingByte, HoldingFlags DEF w
<1>5. CASE d.ins.op = "OUT_ATb_R"
  <2>1. \A u : InOut(u, d, any) = Skip(u, 1)
    BY <1>5 DEF InOut
  <2>2. QED BY <1>2, <2>1 DEF w
<1>6. CASE d.ins.op = "OUT_ATR_R"
  <2>1. \A u : InOut(u, d, any) = u
    BY <1>6 DEF InOut
  <2>2. QED BY <2>1 DEF w
<1>7. QED BY <1>3, <1>4, <1>5, <1>6 DEF Ports, w

LEMMA ControlLeaves ==
  ASSUME NEW z, Built(z), NEW h, NEW l, NEW d, d.ins.op \in Controls
  PROVE  Control(Holding(z, h, l), d) = Holding(Control(z, d), h, l)
<1>1. CASE d.ins.op \in {"NOP", "Z80EXT"}
  <2>1. \A u : Control(u, d) = u
    BY <1>1 DEF Control
  <2>2. QED BY <2>1
<1>2. CASE d.ins.op = "HALT"
  <2>1. \A u : Control(u, d) = WithMode(u, "STOP")
    BY <1>2 DEF Control, WithMode
  <2>2. QED BY <2>1, HoldingMode
<1>3. CASE d.ins.op = "DI"
  <2>1. \A u : Control(u, d) = WithBoth(u, 0, 0)
    BY <1>3 DEF Control, WithBoth
  <2>2. QED BY <2>1, HoldingBoth
<1>4. CASE d.ins.op = "EI"
  <2>1. \A u : Control(u, d) = WithBoth(u, 1, 0)
    BY <1>4 DEF Control, WithBoth
  <2>2. QED BY <2>1, HoldingBoth
<1>5. CASE d.ins.op = "IM"
  <2>1. \A u : Control(u, d) = WithInterruptMode(u, d.ins.x)
    BY <1>5 DEF Control, WithInterruptMode
  <2>2. QED BY <2>1, HoldingInterruptMode
<1>6. QED BY <1>1, <1>2, <1>3, <1>4, <1>5 DEF Controls

\* After a prefix, and but for EXX, the block instructions, RLD and RRD, what an
\* instruction does is the same whatever H and L hold, and it leaves them as they are.
LEMMA InstructionLeaves ==
  ASSUME NEW z, Built(z), NEW h, NEW l, NEW d, OffHL(d), NotMeant(d),
         d.ins.op \notin Blocks \cup {"RLD", "RRD", "EXX"}, NEW any
  PROVE  simop(Holding(z, h, l), d, any) = Holding(simop(z, d, any), h, l)
<1> DEFINE op == d.ins.op
           w == Holding(z, h, l)
<1> HIDE DEF w
<1>1. CASE op \in ByteLoads
  <2>1. simop(z, d, any) = LoadByte(z, d, any) /\ simop(w, d, any) = LoadByte(w, d, any)
    BY <1>1, FamilyExecutes
  <2>2. QED BY <1>1, <2>1, ByteLoadLeaves DEF w
<1>2. CASE op \in WordLoads
  <2>1. simop(z, d, any) = LoadWord(z, d) /\ simop(w, d, any) = LoadWord(w, d)
    BY <1>2, FamilyExecutes
  <2>2. QED BY <1>2, <2>1, WordLoadLeaves DEF w
<1>3. CASE op \in Exchanges
  <2>1. simop(z, d, any) = Exchange(z, d) /\ simop(w, d, any) = Exchange(w, d)
    BY <1>3, FamilyExecutes
  <2>2. QED BY <1>3, <2>1, ExchangeLeaves DEF w
<1>4. CASE op \in Operations
  <2>1. simop(z, d, any) = OnAccumulator(z, d) /\ simop(w, d, any) = OnAccumulator(w, d)
    BY <1>4, FamilyExecutes
  <2>2. QED BY <1>4, <2>1, AccumulatorLeaves DEF w
<1>5. CASE op \in Generals
  <2>1. simop(z, d, any) = General(z, d) /\ simop(w, d, any) = General(w, d)
    BY <1>5, FamilyExecutes
  <2>2. QED BY <1>5, <2>1, GeneralLeaves DEF w
<1>6. CASE op \in Changes
  <2>1. simop(z, d, any) = OnOperand(z, d) /\ simop(w, d, any) = OnOperand(w, d)
    BY <1>6, FamilyExecutes
  <2>2. QED BY <1>6, <2>1, OperandLeaves DEF w
<1>7. CASE op \in Bits
  <2>1. simop(z, d, any) = OnOneBit(z, d) /\ simop(w, d, any) = OnOneBit(w, d)
    BY <1>7, FamilyExecutes
  <2>2. QED BY <1>7, <2>1, OneBitLeaves DEF w
<1>8. CASE op \in Wides
  <2>1. simop(z, d, any) = Arithmetic16(z, d) /\ simop(w, d, any) = Arithmetic16(w, d)
    BY <1>8, FamilyExecutes
  <2>2. QED BY <1>8, <2>1, WideLeaves DEF w
<1>9. CASE op \in Jumps
  <2>1. simop(z, d, any) = Jump(z, d) /\ simop(w, d, any) = Jump(w, d)
    BY <1>9, FamilyExecutes
  <2>2. QED BY <1>9, <2>1, JumpLeaves DEF w
<1>10. CASE op \in Calls \cup Returns
  <2>1. simop(z, d, any) = CallOrReturn(z, d) /\ simop(w, d, any) = CallOrReturn(w, d)
    BY <1>10, FamilyExecutes
  <2>2. QED BY <1>10, <2>1, CallLeaves DEF w
<1>11. CASE op \in Ports
  <2>1. simop(z, d, any) = InOut(z, d, any) /\ simop(w, d, any) = InOut(w, d, any)
    BY <1>11, FamilyExecutes
  <2>2. QED BY <1>11, <2>1, InOutLeaves DEF w
<1>12. CASE op \in Controls
  <2>1. simop(z, d, any) = Control(z, d) /\ simop(w, d, any) = Control(w, d)
    BY <1>12, FamilyExecutes
  <2>2. QED BY <1>12, <2>1, ControlLeaves DEF w
<1>13. op \in Families
  BY DEF OffHL, WellDecoded, Fits
<1>14. QED
  BY <1>1, <1>2, <1>3, <1>4, <1>5, <1>6, <1>7, <1>8, <1>9, <1>10, <1>11, <1>12, <1>13
  DEF Families, w

LEMMA OnBytesOnly == \A x \in Byte : sInstrCB(x).op \in OnBytes
<1>1. \A x \in 0..255 : sInstrCB(x).op \in OnBytes
  BY ByteLengths
<1>2. Byte = 0..255
  BY DEF Byte
<1>3. QED BY <1>1, <1>2

\* What is decoded after a prefix names IX or IY, and is none of these.
LEMMA IndexedDecoding ==
  ASSUME NEW z, IsProcessor(z), FewPrefixes(z.mem, z.pc),
         read(z.mem, z.pc) \in {221, 253},
         read(z.mem, z.pc + Prefixes(z.mem, z.pc)) # 237
  PROVE  LET d == Decode(z.mem, z.pc)
         IN  OffHL(d) /\ d.ins.op \notin Blocks \cup {"RLD", "RRD"}
<1> DEFINE n == Prefixes(z.mem, z.pc)
           at == z.pc + n
           b == read(z.mem, at)
           d == Decode(z.mem, z.pc)
<1>1. n \in Nat /\ Prefixed(z.mem, z.pc, n)
  BY PrefixesAreFound, PrefixAssumption
<1>2. b \notin {221, 253}
  BY <1>1 DEF Prefixed
<1>3. n # 0
  <2>1. z.pc + 0 = z.pc
    BY DEF IsProcessor, Word
  <2>2. QED BY <1>2, <2>1
<1>4. DecodedAs(z.mem, z.pc, n, at)
  BY <1>1, <1>2, DecodedAt
<1>5. WellDecoded(d)
  BY DecodeFits
<1>6. d.named # "HL" /\ d.pointed # "HL"
  BY <1>3, <1>4 DEF DecodedAs
<1>7. b \in Byte /\ read(z.mem, at + 2) \in Byte
  BY MemoryIsBytes
<1>8. CASE b = 203
  <2>1. d.ins = sInstrCB(read(z.mem, at + 2))
    BY <1>3, <1>4, <1>8 DEF DecodedAs
  <2>2. d.ins.op \in OnBytes
    BY <1>7, <2>1, OnBytesOnly
  <2>3. OnBytes \cap (Blocks \cup {"RLD", "RRD"}) = {}
    BY DEF OnBytes, Blocks, Moving, Comparing, Receiving, Sending
  <2>4. QED BY <1>5, <1>6, <2>2, <2>3 DEF OffHL
<1>9. CASE b # 203
  <2>1. d.ins = sInstr(b)
    BY <1>2, <1>4, <1>9 DEF DecodedAs
  <2>2. d.ins.op \notin Blocks \cup {"RLD", "RRD"}
    BY <1>2, <1>7, <1>9, <2>1, MainLengths DEF Takes
  <2>3. QED BY <1>5, <1>6, <2>2 DEF OffHL
<1>10. QED BY <1>8, <1>9

LEMMA Doubled ==
  ASSUME NEW z, NEW a \in Byte
  PROVE  Set16(z, "HL", 257 * a) = Holding(z, a, a)
<1>1. ((257 * a) % 65536) \div 256 = a /\ (257 * a) % 256 = a
  BY DEF Byte
<1>2. Hi["HL"] = "H" /\ Lo["HL"] = "L"
  BY DEF Hi, Lo
<1> DEFINE v == 257 * a
<1> HIDE DEF v
<1>3. Set16(z, "HL", v) = Holding(z, (v % 65536) \div 256, v % 256)
  BY <1>2 DEF Set16, Holding
<1>4. (v % 65536) \div 256 = a /\ v % 256 = a
  BY <1>1 DEF v
<1>5. QED BY <1>3, <1>4 DEF v

LEMMA IndexedLeaves ==
  ASSUME NEW z, IsProcessor(z), FewPrefixes(z.mem, z.pc), ~Accepts(z),
         read(z.mem, z.pc) \in {221, 253},
         read(z.mem, z.pc + Prefixes(z.mem, z.pc)) # 237,
         NotMeant(Decode(z.mem, z.pc)), Decode(z.mem, z.pc).ins.op # "EXX",
         NEW any \in Byte
  PROVE  /\ \A h, l : sim(Holding(z, h, l), any) = Holding(sim(z, any), h, l)
         /\ Pair16(sim(z, any), "HL") = Pair16(z, "HL")
<1> DEFINE d == Decode(z.mem, z.pc)
           u == IF z.iff1 = 1 THEN WithDelay(z, 1) ELSE z
           t == To(u, d.next)
<1>1. /\ OffHL(d) /\ NotMeant(d) /\ WellDecoded(d)
      /\ d.ins.op \notin Blocks \cup {"RLD", "RRD", "EXX"}
  BY IndexedDecoding DEF OffHL
<1>2. Built(z)
  BY ProcessorIsBuilt
<1>3. sim(z, any) = simop(t, d, any)
  BY DEF sim, WithDelay
<1> HIDE DEF d
<1>4. ASSUME NEW h, NEW l
      PROVE  sim(Holding(z, h, l), any) = Holding(sim(z, any), h, l)
  <2> DEFINE w == Holding(z, h, l)
             v == IF w.iff1 = 1 THEN WithDelay(w, 1) ELSE w
  <2>1. w.mem = z.mem /\ w.pc = z.pc /\ w.iff1 = z.iff1 /\ w.iff2 = z.iff2 /\ w.irq = z.irq
    BY <1>2, HoldingIs
  <2>2. v = Holding(u, h, l) /\ Built(u)
    BY <1>2, <2>1, HoldingDelay
  <2> HIDE DEF w
  <2>3. sim(w, any) = simop(To(v, d.next), d, any)
    BY <2>1 DEF sim, Accepts, WithDelay, d
  <2> HIDE DEF u, v
  <2>4. To(v, d.next) = Holding(t, h, l) /\ Built(t)
    BY <2>2, HoldingGoes
  <2> HIDE DEF t
  <2>5. simop(Holding(t, h, l), d, any) = Holding(simop(t, d, any), h, l)
    BY <1>1, <2>4, InstructionLeaves
  <2>6. QED BY <1>3, <2>3, <2>4, <2>5 DEF w
<1>5. Like(u, z)
  BY DEF Like, IsProcessor, Flag, WithDelay
<1>6. IsProcessor(t) /\ t.r = z.r /\ t = [n \in DOMAIN t |-> t[n]]
  <2>1. IsProcessor(t)
    BY <1>1, <1>5, ToKeeps DEF Like, WellDecoded
  <2>2. u.r = z.r
    BY <1>2 DEF WithDelay, Built
  <2>3. u.r = t.r
    BY <1>5 DEF Like, IsProcessor, To
  <2> HIDE DEF u
  <2>4. t = [n \in DOMAIN t |-> t[n]]
    BY DEF To
  <2>5. QED BY <2>1, <2>2, <2>3, <2>4
<1>7. Pair16(sim(z, any), "HL") = Pair16(z, "HL")
  <2> DEFINE h == z.r["H"]
             l == z.r["L"]
             s == simop(t, d, any)
  <2> HIDE DEF t, h, l
  <2>1. Holding(t, h, l) = t
    BY <1>6, HoldingItself DEF h, l
  <2>2. Built(t) /\ Built(s)
    BY <1>1, <1>6, InstructionKeeps, ProcessorIsBuilt
  <2>3. s = Holding(s, h, l)
    BY <1>1, <2>1, <2>2, InstructionLeaves
  <2> HIDE DEF s
  <2>4. s.r["H"] = h /\ s.r["L"] = l
    BY <2>2, <2>3, HoldingIs
  <2>5. \A q : Pair16(q, "HL") = 256 * q.r["H"] + q.r["L"]
    BY DEF Pair16, Hi, Lo
  <2>6. QED BY <1>3, <2>4, <2>5 DEF s, h, l
<1>8. QED BY <1>4, <1>7

LEMMA IndexFollows == ASSUME DebuggerInvariant PROVE IndexedLeavesHL
<1> DEFINE d == Decoded
           opcode == read(z80.mem, z80.pc + Prefixes(z80.mem, z80.pc))
           meant == d.ins.op \in {"LD_R_ATRX", "LD_ATRX_R"} /\ {d.ins.x, d.ins.y} \cap {"H", "L"} # {}
           same == 257 * z80.r["A"]
           after == sim(z80, 0)
<1>1. SUFFICES ASSUME Bounded(z80), ~Accepts(z80), Indexed, opcode # 237, ~meant, d.ins.op # "EXX"
               PROVE  /\ sim(Set16(z80, "HL", same), 0) = Set16(after, "HL", same)
                      /\ Pair16(after, "HL") = Pair16(z80, "HL")
  BY DEF IndexedLeavesHL
<1>2. IsProcessor(z80) /\ FewPrefixes(z80.mem, z80.pc)
  BY <1>1 DEF DebuggerInvariant, TypeOK, Bounded
<1>3. z80.r["A"] \in Byte /\ 0 \in Byte
  BY <1>2 DEF IsProcessor, RegName, Byte
<1>4. /\ \A h, l : sim(Holding(z80, h, l), 0) = Holding(after, h, l)
      /\ Pair16(after, "HL") = Pair16(z80, "HL")
  <2>1. read(z80.mem, z80.pc) \in {221, 253}
    BY <1>1 DEF Indexed, IndexBytes
  <2>2. NotMeant(Decode(z80.mem, z80.pc)) /\ Decode(z80.mem, z80.pc).ins.op # "EXX"
    BY <1>1 DEF NotMeant, Decoded
  <2>3. QED BY <1>1, <1>2, <1>3, <2>1, <2>2, IndexedLeaves
<1>5. \A q : Set16(q, "HL", same) = Holding(q, z80.r["A"], z80.r["A"])
  BY <1>3, Doubled
<1>6. QED BY <1>4, <1>5

\* After DD or FD an instruction does the same whatever HL holds, and leaves HL alone,
\* whatever the program and however many prefixes: IndexedLeavesHL of Debugger.
THEOREM IndexedLeaveHL == Spec => []IndexedLeavesHL
<1>1. Init => DebuggerInvariant
  BY DebuggerInit
<1>2. DebuggerInvariant /\ [Next]_vars => DebuggerInvariant'
  BY DebuggerNext
<1>3. DebuggerInvariant => IndexedLeavesHL
  BY IndexFollows
<1>4. QED BY <1>1, <1>2, <1>3, PTL DEF Spec

-------------------------------------------------------------------------------
(* The calls that are open. *)

\* A set of places that holds every place before one it holds is as long as it is large.
LEMMA LowestCounted ==
  ASSUME NEW L \in Nat, NEW S \in SUBSET (1..L),
         \A i, j \in 1..L : j \in S /\ i <= j => i \in S
  PROVE  /\ Cardinality(S) \in 0..L
         /\ \A i \in 1..L : i \in S <=> i <= Cardinality(S)
<1>1. IsFiniteSet(1..L) /\ Cardinality(1..L) = L
  BY FS_Interval
<1>2. IsFiniteSet(S) /\ Cardinality(S) <= L /\ Cardinality(S) \in Nat
  BY <1>1, FS_Subset, FS_CardinalityType
<1>3. ASSUME NEW i \in 1..L, i \in S PROVE i <= Cardinality(S)
  <2>1. (1..i) \in SUBSET S
    BY <1>3
  <2>2. Cardinality(1..i) <= Cardinality(S)
    BY <1>2, <2>1, FS_Subset
  <2>3. Cardinality(1..i) = i
    BY FS_Interval
  <2>4. QED BY <2>2, <2>3
<1>4. ASSUME NEW i \in 1..L, i \notin S PROVE ~(i <= Cardinality(S))
  <2> DEFINE below == 1..(i - 1)
  <2>1. S \in SUBSET below
    BY <1>4
  <2>2. IsFiniteSet(below) /\ Cardinality(below) = i - 1
    BY FS_Interval
  <2> HIDE DEF below
  <2>3. Cardinality(S) <= Cardinality(below)
    BY <2>1, <2>2, FS_Subset
  <2>4. QED BY <1>2, <2>2, <2>3
<1>5. QED BY <1>2, <1>3, <1>4

OpenCall == [ret : Word, sp : Word]

\* The later a call, the lower its return address.
Ordered(f) == \A i, j \in 1..Len(f) : i <= j => f[i].sp <= f[j].sp
Above(f, sp) == \A i \in 1..Len(f) : sp <= f[i].sp

LEMMA CallIsAnywhere == ASSUME NEW c \in OpenCall PROVE c.sp \in Word /\ c.ret \in Word /\ c.sp \in Int
<1>1. c.sp \in Word /\ c.ret \in Word
  BY DEF OpenCall
<1>2. Word \subseteq Int
  BY DEF Word
<1>3. QED BY <1>1, <1>2

LEMMA CallsArePlaced ==
  ASSUME NEW f \in Seq(OpenCall)
  PROVE  /\ Len(f) \in Nat /\ DOMAIN f = 1..Len(f)
         /\ \A i \in 1..Len(f) : f[i] \in OpenCall /\ f[i].sp \in Int
<1>1. Len(f) \in Nat /\ DOMAIN f = 1..Len(f) /\ \A i \in 1..Len(f) : f[i] \in OpenCall
  OBVIOUS
<1>2. \A c \in OpenCall : c.sp \in Int
  BY CallIsAnywhere
<1>3. QED BY <1>1, <1>2

\* How many calls, and which, are below v.
Below(f, v) == Cardinality({i \in DOMAIN f : f[i].sp < v})
Beyond(f, v) == SubSeq(f, Below(f, v) + 1, Len(f))

LEMMA BelowIs ==
  ASSUME NEW f \in Seq(OpenCall), Ordered(f), NEW v \in Int
  PROVE  /\ Below(f, v) \in 0..Len(f)
         /\ \A i \in 1..Len(f) : f[i].sp < v <=> i <= Below(f, v)
<1> DEFINE L == Len(f)
           S == {i \in DOMAIN f : f[i].sp < v}
<1>1. L \in Nat /\ DOMAIN f = 1..L /\ \A i \in 1..L : f[i].sp \in Int
  BY CallsArePlaced
<1>2. \A i \in 1..L : i \in S <=> f[i].sp < v
  BY <1>1
<1>3. S \in SUBSET (1..L)
  BY <1>1
<1>4. Below(f, v) = Cardinality(S)
  BY DEF Below
<1>5. \A i, j \in 1..L : i <= j => f[i].sp <= f[j].sp
  BY DEF Ordered
<1> HIDE DEF S, L
<1>6. \A i, j \in 1..L : j \in S /\ i <= j => i \in S
  BY <1>1, <1>2, <1>5
<1>7. Cardinality(S) \in 0..L /\ \A i \in 1..L : i \in S <=> i <= Cardinality(S)
  BY <1>1, <1>3, <1>6, LowestCounted
<1>8. QED BY <1>2, <1>4, <1>7 DEF L

LEMMA BeyondIs ==
  ASSUME NEW f \in Seq(OpenCall), Ordered(f), NEW v \in Int
  PROVE  /\ Beyond(f, v) \in Seq(OpenCall) /\ Len(Beyond(f, v)) = Len(f) - Below(f, v)
         /\ \A i \in 1..Len(Beyond(f, v)) : Beyond(f, v)[i] = f[i + Below(f, v)]
         /\ Ordered(Beyond(f, v)) /\ Above(Beyond(f, v), v)
<1> DEFINE L == Len(f)
           n == Below(f, v)
           g == Beyond(f, v)
<1>1. L \in Nat /\ n \in 0..L /\ \A i \in 1..L : f[i].sp < v <=> i <= n
  BY BelowIs, CallsArePlaced
<1>2. \A i \in 1..L : f[i].sp \in Int
  BY CallsArePlaced
<1>3. g = SubSeq(f, n + 1, L)
  BY DEF Beyond
<1> HIDE DEF n, g
<1>4. g \in Seq(OpenCall) /\ Len(g) = L - n /\ \A i \in 1..(L - n) : g[i] = f[i + n]
  BY <1>1, <1>3
<1>5. \A i \in 1..(L - n) : i + n \in 1..L /\ ~(i + n <= n)
  BY <1>1
<1>6. \A i, j \in 1..L : i <= j => f[i].sp <= f[j].sp
  BY DEF Ordered
<1> HIDE DEF L
<1>7. Ordered(g)
  <2>1. SUFFICES ASSUME NEW i \in 1..(L - n), NEW j \in 1..(L - n), i <= j
                 PROVE  g[i].sp <= g[j].sp
    BY <1>4 DEF Ordered
  <2>2. i + n <= j + n /\ i + n \in 1..L /\ j + n \in 1..L
    BY <1>1, <1>5, <2>1
  <2>3. f[i + n].sp <= f[j + n].sp
    BY <1>6, <2>2
  <2>4. QED BY <1>4, <2>3
<1>8. Above(g, v)
  <2>1. SUFFICES ASSUME NEW i \in 1..(L - n) PROVE v <= g[i].sp
    BY <1>4 DEF Above
  <2>2. ~(f[i + n].sp < v) /\ f[i + n].sp \in Int
    BY <1>1, <1>2, <1>5
  <2>3. QED BY <1>4, <2>2
<1>9. QED BY <1>4, <1>7, <1>8 DEF n, g, L

\* A call on top.
LEMMA TopmostOrdered ==
  ASSUME NEW f \in Seq(OpenCall), Ordered(f), NEW c \in OpenCall, Above(f, c.sp)
  PROVE  /\ <<c>> \o f \in Seq(OpenCall) /\ Ordered(<<c>> \o f) /\ Above(<<c>> \o f, c.sp)
         /\ Len(<<c>> \o f) = Len(f) + 1 /\ (<<c>> \o f)[1] = c
         /\ \A i \in 1..Len(f) : (<<c>> \o f)[i + 1] = f[i]
<1> DEFINE g == <<c>> \o f
           L == Len(f)
<1>1. g \in Seq(OpenCall) /\ Len(g) = L + 1 /\ L \in Nat /\ g[1] = c
  OBVIOUS
<1>2. \A i \in 1..L : g[i + 1] = f[i]
  OBVIOUS
<1>3. \A i \in 1..L : f[i].sp \in Int /\ c.sp <= f[i].sp
  BY CallsArePlaced DEF Above
<1>4. c.sp \in Int
  BY CallIsAnywhere
<1>5. \A i, j \in 1..L : i <= j => f[i].sp <= f[j].sp
  BY DEF Ordered
<1> HIDE DEF g, L
<1>6. \A i \in 1..(L + 1) : i # 1 => i - 1 \in 1..L /\ g[i] = f[i - 1]
  <2>1. SUFFICES ASSUME NEW i \in 1..(L + 1), i # 1 PROVE i - 1 \in 1..L /\ g[i] = f[i - 1]
    OBVIOUS
  <2>2. i - 1 \in 1..L /\ (i - 1) + 1 = i
    BY <1>1, <2>1
  <2>3. QED BY <1>2, <2>2
<1>7. \A i \in 1..(L + 1) : c.sp <= g[i].sp
  BY <1>1, <1>3, <1>4, <1>6
<1>8. Ordered(g)
  <2>1. SUFFICES ASSUME NEW i \in 1..(L + 1), NEW j \in 1..(L + 1), i <= j
                 PROVE  g[i].sp <= g[j].sp
    BY <1>1 DEF Ordered
  <2>2. CASE i = 1
    BY <1>1, <1>7, <2>2
  <2>3. CASE i # 1
    <3>1. i - 1 \in 1..L /\ j - 1 \in 1..L /\ i - 1 <= j - 1 /\ j # 1
      BY <1>1, <1>6, <2>1, <2>3
    <3>2. f[i - 1].sp <= f[j - 1].sp
      BY <1>5, <3>1
    <3>3. QED BY <1>6, <2>3, <3>1, <3>2
  <2>4. QED BY <2>2, <2>3
<1>9. Above(g, c.sp)
  BY <1>1, <1>7 DEF Above
<1>10. QED BY <1>1, <1>2, <1>8, <1>9 DEF g, L

\* The return addresses of the open calls are on the stack, the latest one lowest.
FramesStand == frames \in Seq(OpenCall) /\ Ordered(frames) /\ Above(frames, z80.sp)

Called(before, z) ==
  \/ Accepts(before) /\ before.im = 1
  \/ ~Accepts(before) /\ Op \in Calls /\ z.sp # z80.sp

LEMMA FramesAre ==
  ASSUME frames \in Seq(OpenCall), Ordered(frames), NEW before, NEW z, IsProcessor(z)
  PROVE  LET f == Frames(before, z)
             g == Beyond(frames, z.sp)
         IN  /\ f = IF Called(before, z) THEN <<[ret |-> Top(z), sp |-> z.sp]>> \o g ELSE g
             /\ f \in Seq(OpenCall) /\ Ordered(f) /\ Above(f, z.sp)
<1> DEFINE f == Frames(before, z)
           g == Beyond(frames, z.sp)
           c == [ret |-> Top(z), sp |-> z.sp]
<1>1. f = IF Called(before, z) THEN <<c>> \o g ELSE g
  BY DEF Frames, Left, Below, Beyond, Called, Op
<1>2. z.sp \in Word /\ Top(z) \in Word
  BY Readings DEF IsProcessor, Top
<1>3. c \in OpenCall /\ c.sp = z.sp
  BY <1>2 DEF OpenCall
<1>4. g \in Seq(OpenCall) /\ Ordered(g) /\ Above(g, z.sp)
  BY <1>2, BeyondIs, BytesAreNumbers
<1> HIDE DEF f, g, c
<1>5. CASE Called(before, z)
  <2>1. <<c>> \o g \in Seq(OpenCall) /\ Ordered(<<c>> \o g) /\ Above(<<c>> \o g, c.sp)
    BY <1>3, <1>4, TopmostOrdered
  <2>2. f = <<c>> \o g
    BY <1>1, <1>5
  <2>3. QED BY <1>3, <1>5, <2>1, <2>2 DEF f, g, c
<1>6. CASE ~Called(before, z)
  BY <1>1, <1>4, <1>6 DEF f, g, c
<1>7. QED BY <1>5, <1>6

LEMMA FramesStandOn == ASSUME DebuggerInvariant, FramesStand, [Next]_vars PROVE FramesStand'
<1>1. IsProcessor(z80) /\ IsProcessor(z80')
  BY DebuggerNext DEF DebuggerInvariant, TypeOK
<1>2. ASSUME NEW before, frames' = Frames(before, z80') PROVE FramesStand'
  BY <1>1, <1>2, FramesAre DEF FramesStand
<1>3. ASSUME frames' = frames, z80'.sp = z80.sp PROVE FramesStand'
  BY <1>3 DEF FramesStand, Above
<1>4. ASSUME NEW m, NEW on, Runs(m, on) PROVE z80'.sp = z80.sp
  BY <1>1, <1>4 DEF Runs, IsProcessor
<1>5. \/ \E before : frames' = Frames(before, z80')
      \/ frames' = frames /\ z80'.sp = z80.sp
  BY <1>4 DEF Next, Key, loop, Go, Breakpoint, BreakpointAgain, BreakpointUnread, CallStep,
       InstructionStep, UntilRet, Show, Run, Executes, vars
<1>6. QED BY <1>2, <1>3, <1>5

\* X remembers the stack pointer, and all the calls open then are above it.
GoalStands == goal \in Seq(OpenCall) /\ Above(goal, retsp)

LEMMA GoalStandsOn == ASSUME FramesStand, GoalStands, [Next]_vars PROVE GoalStands'
<1>1. CASE UntilRet
  BY <1>1 DEF UntilRet, FramesStand, GoalStands
<1>2. CASE UNCHANGED <<goal, retsp>>
  BY <1>2 DEF GoalStands, Above
<1>3. QED
  BY <1>1, <1>2 DEF Next, Key, loop, Go, Breakpoint, BreakpointAgain, BreakpointUnread, CallStep,
       InstructionStep, Show, Run, vars, history, commands

LEMMA NoCallsYet == ASSUME Init PROVE FramesStand /\ GoalStands
BY DEF Init, FramesStand, GoalStands, Ordered, Above

-------------------------------------------------------------------------------
(* Returns and calls are where the debugger looks for them, and nowhere else. *)

Linking == {"RET", "CALL", "RST"}

LEMMA FamiliesUnlinked ==
  /\ Operations \cap Linking = {} /\ Generals \cap Linking = {} /\ OnBytes \cap Linking = {}
  /\ Blocks \cap Linking = {} /\ Quiet \cap Linking = {}
BY DEF Operations, Generals, OnBytes, Blocks, Moving, Comparing, Receiving, Sending, Quiet, Linking

LEMMA LowUnlinked == ASSUME NEW n \in 0..63 PROVE Low(n).op \notin Linking
<1>1. /\ Row(n) \in {0, 1, 2, 3, 4, 5, 6, 7} /\ Row(n) \in 0..7
      /\ Column(n) \in {0, 1, 2, 3, 4, 5, 6, 7}
  <2>1. n \in 0..255
    OBVIOUS
  <2>2. Row(n) \in 0..7 /\ Column(n) \in 0..7
    BY <2>1, Digits
  <2>3. QED BY <2>2
<1>2. ASSUME NEW x, NEW y,
             NEW op \in {"NOP", "EX_AF_AFP", "DJNZ", "JR", "LD_RX_w", "ADD_RX_RX", "LD_ATRX_R",
                        "LD_R_ATRX", "LD_ATw_RX", "LD_RX_ATw", "LD_ATw_R", "LD_R_ATw", "INC_RX",
                        "DEC_RX", "INC", "DEC", "LD_ATRX_b", "LD_R_b"} \cup Generals
      PROVE  Instr(op, x, y).op \notin Linking
  <2>1. op \notin Linking
    BY FamiliesUnlinked DEF Linking
  <2>2. Instr(op, x, y).op = op
    BY DEF Instr
  <2>3. QED BY <2>1, <2>2
<1>3. CASE Column(n) = 0
  <2>1. n \in {0, 8, 16, 24} \/ n >= 32
    BY <1>3 DEF Column
  <2>2. CASE n = 0
    <3>1. Low(n) = Instr("NOP", "", "")
      BY <2>2, LowTable
    <3>2. QED BY <1>2, <3>1
  <2>3. CASE n = 8
    <3>1. Low(n) = Instr("EX_AF_AFP", "", "")
      BY <2>3, LowTable
    <3>2. QED BY <1>2, <3>1
  <2>4. CASE n = 16
    <3>1. Low(n) = Instr("DJNZ", "", "")
      BY <2>4, LowTable
    <3>2. QED BY <1>2, <3>1
  <2>5. CASE n = 24
    <3>1. Low(n) = Instr("JR", "always", "")
      BY <2>5, LowTable
    <3>2. QED BY <1>2, <3>1
  <2>6. CASE n >= 32
    <3>1. Low(n) = Instr("JR", CC(Row(n) - 4), "")
      BY <1>3, <2>6, LowTable
    <3>2. QED BY <1>2, <3>1
  <2>7. QED BY <2>1, <2>2, <2>3, <2>4, <2>5, <2>6
<1>4. CASE Column(n) = 1
  <2>1. CASE Row(n) % 2 = 0
    <3>1. Low(n) = Instr("LD_RX_w", Pair(n), "")
      BY <1>4, <2>1, LowTable
    <3>2. QED BY <1>2, <3>1
  <2>2. CASE Row(n) % 2 # 0
    <3>1. Low(n) = Instr("ADD_RX_RX", "HL", Pair(n))
      BY <1>4, <2>2, LowTable
    <3>2. QED BY <1>2, <3>1
  <2>3. QED BY <2>1, <2>2
<1>5. CASE Column(n) = 2
  <2>1. CASE Row(n) = 0
    <3>1. Low(n) = Instr("LD_ATRX_R", "(BC)", "A")
      BY <1>5, <2>1, LowTable
    <3>2. QED BY <1>2, <3>1
  <2>2. CASE Row(n) = 1
    <3>1. Low(n) = Instr("LD_R_ATRX", "A", "(BC)")
      BY <1>5, <2>2, LowTable
    <3>2. QED BY <1>2, <3>1
  <2>3. CASE Row(n) = 2
    <3>1. Low(n) = Instr("LD_ATRX_R", "(DE)", "A")
      BY <1>5, <2>3, LowTable
    <3>2. QED BY <1>2, <3>1
  <2>4. CASE Row(n) = 3
    <3>1. Low(n) = Instr("LD_R_ATRX", "A", "(DE)")
      BY <1>5, <2>4, LowTable
    <3>2. QED BY <1>2, <3>1
  <2>5. CASE Row(n) = 4
    <3>1. Low(n) = Instr("LD_ATw_RX", "", "HL")
      BY <1>5, <2>5, LowTable
    <3>2. QED BY <1>2, <3>1
  <2>6. CASE Row(n) = 5
    <3>1. Low(n) = Instr("LD_RX_ATw", "HL", "")
      BY <1>5, <2>6, LowTable
    <3>2. QED BY <1>2, <3>1
  <2>7. CASE Row(n) = 6
    <3>1. Low(n) = Instr("LD_ATw_R", "", "A")
      BY <1>5, <2>7, LowTable
    <3>2. QED BY <1>2, <3>1
  <2>8. CASE Row(n) = 7
    <3>1. Low(n) = Instr("LD_R_ATw", "A", "")
      BY <1>5, <2>8, LowTable
    <3>2. QED BY <1>2, <3>1
  <2>9. QED BY <1>1, <2>1, <2>2, <2>3, <2>4, <2>5, <2>6, <2>7, <2>8
<1>6. CASE Column(n) \in {3, 4, 5, 6}
  <2>1. CASE Column(n) = 3 /\ Row(n) % 2 = 0
    <3>1. Low(n) = Instr("INC_RX", Pair(n), "")
      BY <2>1, LowTable
    <3>2. QED BY <1>2, <3>1
  <2>2. CASE Column(n) = 3 /\ Row(n) % 2 # 0
    <3>1. Low(n) = Instr("DEC_RX", Pair(n), "")
      BY <2>2, LowTable
    <3>2. QED BY <1>2, <3>1
  <2>3. CASE Column(n) = 4
    <3>1. Low(n) = Instr("INC", R8(Row(n)), "")
      BY <2>3, LowTable
    <3>2. QED BY <1>2, <3>1
  <2>4. CASE Column(n) = 5
    <3>1. Low(n) = Instr("DEC", R8(Row(n)), "")
      BY <2>4, LowTable
    <3>2. QED BY <1>2, <3>1
  <2>5. CASE Column(n) = 6 /\ n = 54
    <3>1. Low(n) = Instr("LD_ATRX_b", R8(Row(n)), "")
      BY <2>5, LowTable
    <3>2. QED BY <1>2, <3>1
  <2>6. CASE Column(n) = 6 /\ n # 54
    <3>1. Low(n) = Instr("LD_R_b", R8(Row(n)), "")
      BY <2>6, LowTable
    <3>2. QED BY <1>2, <3>1
  <2>7. QED BY <1>6, <2>1, <2>2, <2>3, <2>4, <2>5, <2>6
<1>7. CASE Column(n) = 7
  <2>1. PICK op \in Generals : op = OnA[Row(n) + 1]
    BY <1>1, OperandTables
  <2>2. Low(n) = Instr(op, "", "")
    BY <1>7, <2>1, LowTable
  <2>3. QED BY <1>2, <2>2
<1>8. QED BY <1>1, <1>3, <1>4, <1>5, <1>6, <1>7

LEMMA MiddleUnlinked ==
  ASSUME NEW n \in 64..191
  PROVE  IF n < 128 THEN Moves(n).op \notin Linking ELSE Operate(n).op \notin Linking
<1>1. Moves(n).op \in {"HALT", "LD_R_ATRX", "LD_ATRX_R", "LD_R_R"}
  BY DEF Moves, Instr
<1>2. Row(n) \in 0..7
  BY DEF Row
<1>3. Operate(n).op \in Operations
  BY <1>2, OperandTables DEF Operate, Instr
<1>4. QED BY <1>1, <1>3, FamiliesUnlinked DEF Linking

\* Without the prefixes and the opcodes of the other tables.
LEMMA HighLinks ==
  ASSUME NEW n \in 192..255, n \notin {203, 221, 237, 253}
  PROVE  /\ High(n).op = "RET" => Column(n) = 0 \/ n = 201
         /\ High(n).op \in {"CALL", "RST"} => Column(n) \in {4, 7} \/ n = 205
<1> DEFINE op == High(n).op
           Goal == /\ op = "RET" => Column(n) = 0 \/ n = 201
                   /\ op \in {"CALL", "RST"} => Column(n) \in {4, 7} \/ n = 205
<1>1. Row(n) \in 0..7 /\ Column(n) \in {0, 1, 2, 3, 4, 5, 6, 7}
  <2>1. n \in 0..255
    OBVIOUS
  <2>2. Row(n) \in 0..7 /\ Column(n) \in 0..7
    BY <2>1, Digits
  <2>3. QED BY <2>2
<1>2. ASSUME op \notin Linking PROVE Goal
  BY <1>2 DEF Linking
<1>3. ASSUME Column(n) \in {0, 2, 4, 6, 7} PROVE Goal
  <2>1. Plain(n)
    BY <1>3, SinglesAreOdd
  <2>2. CASE Column(n) = 0
    <3>1. High(n) = Instr("RET", CC(Row(n)), "")
      BY <2>1, <2>2 DEF High, Plain
    <3>2. Instr("RET", CC(Row(n)), "").op = "RET"
      BY DEF Instr
    <3>3. op = "RET"
      BY <3>1, <3>2
    <3> HIDE DEF op
    <3>4. QED BY <2>2, <3>3
  <2>3. CASE Column(n) = 2
    <3>1. High(n) = Instr("JP", CC(Row(n)), "")
      BY <2>1, <2>3 DEF High, Plain
    <3>2. Instr("JP", CC(Row(n)), "").op = "JP"
      BY DEF Instr
    <3>3. op = "JP"
      BY <3>1, <3>2
    <3> HIDE DEF op
    <3>4. QED BY <3>3
  <2>4. CASE Column(n) = 4
    <3>1. High(n) = Instr("CALL", CC(Row(n)), "")
      BY <2>1, <2>4 DEF High, Plain
    <3>2. Instr("CALL", CC(Row(n)), "").op = "CALL"
      BY DEF Instr
    <3>3. op = "CALL"
      BY <3>1, <3>2
    <3> HIDE DEF op
    <3>4. QED BY <2>4, <3>3
  <2>5. CASE Column(n) = 6
    <3>1. High(n) = Instr(Arithmetic[Row(n) + 1], "n", "")
      BY <2>1, <2>5 DEF High, Plain
    <3>2. PICK o \in Operations : o = Arithmetic[Row(n) + 1]
      BY <1>1, OperandTables
    <3>3. Instr(o, "n", "").op = o
      BY DEF Instr
    <3>4. op = o
      BY <3>1, <3>2, <3>3
    <3> HIDE DEF op, Goal
    <3>5. QED BY <1>2, <3>2, <3>4, FamiliesUnlinked
  <2>6. CASE Column(n) = 7
    <3>1. High(n) = Instr("RST", 8 * Row(n), "")
      BY <2>1, <2>6 DEF High, Plain
    <3>2. Instr("RST", 8 * Row(n), "").op = "RST"
      BY DEF Instr
    <3>3. op = "RST"
      BY <3>1, <3>2
    <3> HIDE DEF op
    <3>4. QED BY <2>6, <3>3
  <2> HIDE DEF Goal, op
  <2>7. QED BY <1>3, <2>2, <2>3, <2>4, <2>5, <2>6
<1>4. ASSUME ~Plain(n) PROVE Goal
  <2>1. n \in {195, 201, 205, 211, 217, 219, 227, 233, 235, 243, 249, 251}
    BY <1>4 DEF Plain
  <2>2. CASE n = 195
    <3>1. High(n) = Instr("JP", "always", "")
      BY <2>2 DEF High, Column, Row
    <3>2. Instr("JP", "always", "").op = "JP"
      BY DEF Instr
    <3>3. op = "JP"
      BY <3>1, <3>2
    <3> HIDE DEF op
    <3>4. QED BY <2>2, <3>3
  <2>3. CASE n = 201
    <3>1. High(n) = Instr("RET", "always", "")
      BY <2>3 DEF High, Column, Row
    <3>2. Instr("RET", "always", "").op = "RET"
      BY DEF Instr
    <3>3. op = "RET"
      BY <3>1, <3>2
    <3> HIDE DEF op
    <3>4. QED BY <2>3, <3>3
  <2>4. CASE n = 205
    <3>1. High(n) = Instr("CALL", "always", "")
      BY <2>4 DEF High, Column, Row
    <3>2. Instr("CALL", "always", "").op = "CALL"
      BY DEF Instr
    <3>3. op = "CALL"
      BY <3>1, <3>2
    <3> HIDE DEF op
    <3>4. QED BY <2>4, <3>3
  <2>5. CASE n = 211
    <3>1. High(n) = Instr("OUT_ATb_R", "", "A")
      BY <2>5 DEF High, Column, Row
    <3>2. Instr("OUT_ATb_R", "", "A").op = "OUT_ATb_R"
      BY DEF Instr
    <3>3. op = "OUT_ATb_R"
      BY <3>1, <3>2
    <3> HIDE DEF op
    <3>4. QED BY <2>5, <3>3
  <2>6. CASE n = 217
    <3>1. High(n) = Instr("EXX", "", "")
      BY <2>6 DEF High, Column, Row
    <3>2. Instr("EXX", "", "").op = "EXX"
      BY DEF Instr
    <3>3. op = "EXX"
      BY <3>1, <3>2
    <3> HIDE DEF op
    <3>4. QED BY <2>6, <3>3
  <2>7. CASE n = 219
    <3>1. High(n) = Instr("IN_R_ATb", "A", "")
      BY <2>7 DEF High, Column, Row
    <3>2. Instr("IN_R_ATb", "A", "").op = "IN_R_ATb"
      BY DEF Instr
    <3>3. op = "IN_R_ATb"
      BY <3>1, <3>2
    <3> HIDE DEF op
    <3>4. QED BY <2>7, <3>3
  <2>8. CASE n = 227
    <3>1. High(n) = Instr("EX_ATRX_RX", "", "")
      BY <2>8 DEF High, Column, Row
    <3>2. Instr("EX_ATRX_RX", "", "").op = "EX_ATRX_RX"
      BY DEF Instr
    <3>3. op = "EX_ATRX_RX"
      BY <3>1, <3>2
    <3> HIDE DEF op
    <3>4. QED BY <2>8, <3>3
  <2>9. CASE n = 233
    <3>1. High(n) = Instr("JP_ATRX", "", "")
      BY <2>9 DEF High, Column, Row
    <3>2. Instr("JP_ATRX", "", "").op = "JP_ATRX"
      BY DEF Instr
    <3>3. op = "JP_ATRX"
      BY <3>1, <3>2
    <3> HIDE DEF op
    <3>4. QED BY <2>9, <3>3
  <2>10. CASE n = 235
    <3>1. High(n) = Instr("EX_RX_RX", "", "")
      BY <2>10 DEF High, Column, Row
    <3>2. Instr("EX_RX_RX", "", "").op = "EX_RX_RX"
      BY DEF Instr
    <3>3. op = "EX_RX_RX"
      BY <3>1, <3>2
    <3> HIDE DEF op
    <3>4. QED BY <2>10, <3>3
  <2>11. CASE n = 243
    <3>1. High(n) = Instr("DI", "", "")
      BY <2>11 DEF High, Column, Row
    <3>2. Instr("DI", "", "").op = "DI"
      BY DEF Instr
    <3>3. op = "DI"
      BY <3>1, <3>2
    <3> HIDE DEF op
    <3>4. QED BY <2>11, <3>3
  <2>12. CASE n = 249
    <3>1. High(n) = Instr("LD_RX_RX", "SP", "HL")
      BY <2>12 DEF High, Column, Row
    <3>2. Instr("LD_RX_RX", "SP", "HL").op = "LD_RX_RX"
      BY DEF Instr
    <3>3. op = "LD_RX_RX"
      BY <3>1, <3>2
    <3> HIDE DEF op
    <3>4. QED BY <2>12, <3>3
  <2>13. CASE n = 251
    <3>1. High(n) = Instr("EI", "", "")
      BY <2>13 DEF High, Column, Row
    <3>2. Instr("EI", "", "").op = "EI"
      BY DEF Instr
    <3>3. op = "EI"
      BY <3>1, <3>2
    <3> HIDE DEF op
    <3>4. QED BY <2>13, <3>3
  <2> HIDE DEF Goal, op
  <2>14. QED BY <2>1, <2>2, <2>3, <2>4, <2>5, <2>6, <2>7, <2>8, <2>9, <2>10, <2>11, <2>12, <2>13
<1>5. ASSUME Column(n) \in {1, 3, 5}, Plain(n) PROVE Goal
  <2>1. Row(n) % 2 = 0 /\ Column(n) # 3
    BY <1>5, SinglesAreOdd
  <2>2. Row(n) % 2 = 0 /\ Row(n) \in Int
    BY <1>1, <2>1
  <2>3. CASE Column(n) = 1
    <3> DEFINE x == IF n = 241 THEN "AF" ELSE Pair(n)
    <3>1. High(n) = Instr("POP_RX", x, "")
      BY <1>5, <2>2, <2>3 DEF High, Plain
    <3> HIDE DEF x
    <3>2. Instr("POP_RX", x, "").op = "POP_RX"
      BY DEF Instr
    <3>3. op = "POP_RX"
      BY <3>1, <3>2
    <3> HIDE DEF op
    <3>4. QED BY <3>3
  <2>4. CASE Column(n) = 5
    <3> DEFINE x == IF n = 245 THEN "AF" ELSE Pair(n)
    <3>1. High(n) = Instr("PUSH_RX", x, "")
      BY <1>5, <2>2, <2>4 DEF High, Plain
    <3> HIDE DEF x
    <3>2. Instr("PUSH_RX", x, "").op = "PUSH_RX"
      BY DEF Instr
    <3>3. op = "PUSH_RX"
      BY <3>1, <3>2
    <3> HIDE DEF op
    <3>4. QED BY <3>3
  <2> HIDE DEF Goal, op
  <2>5. QED BY <1>5, <2>1, <2>3, <2>4
<1> HIDE DEF Goal, op
<1>6. Goal
  BY <1>1, <1>3, <1>4, <1>5
<1>7. QED BY <1>6 DEF Goal, op

LEMMA MainLinks ==
  ASSUME NEW n \in Byte, n \notin {203, 221, 237, 253}
  PROVE  /\ sInstr(n).op = "RET" => n = 201 \/ (n >= 192 /\ n % 8 = 0)
         /\ sInstr(n).op \in {"CALL", "RST"} => n = 205 \/ (n >= 192 /\ n % 8 \in {4, 7})
<1>1. n \in 0..255
  BY DEF Byte
<1>2. CASE n < 64
  <2>1. sInstr(n) = Low(n) /\ n \in 0..63
    BY <1>1, <1>2 DEF sInstr
  <2>2. QED BY <2>1, LowUnlinked DEF Linking
<1>3. CASE n >= 64 /\ n < 128
  <2>1. sInstr(n) = Moves(n) /\ n \in 64..191 /\ n < 128
    BY <1>1, <1>3 DEF sInstr
  <2>2. Moves(n).op \notin Linking
    BY <2>1, MiddleUnlinked
  <2>3. QED BY <2>1, <2>2 DEF Linking
<1>4. CASE n >= 128 /\ n < 192
  <2>1. sInstr(n) = Operate(n) /\ n \in 64..191 /\ ~(n < 128)
    BY <1>1, <1>4 DEF sInstr
  <2>2. Operate(n).op \notin Linking
    BY <2>1, MiddleUnlinked
  <2>3. QED BY <2>1, <2>2 DEF Linking
<1>5. CASE n >= 192
  <2>1. sInstr(n) = High(n) /\ n \in 192..255
    BY <1>1, <1>5 DEF sInstr
  <2>2. QED BY <1>5, <2>1, HighLinks DEF Column
<1>6. QED BY <1>1, <1>2, <1>3, <1>4, <1>5

LEMMA ExtendedUnlinked == ASSUME NEW n \in Byte PROVE sInstrED(n).op \notin Linking
<1>1. n \in 0..255
  BY DEF Byte
<1>2. CASE n >= 64 /\ n < 128
  <2>1. ~(n >= 128 /\ n < 192) /\ ~(n \in (32..63) \cup (240..255))
    BY <1>1, <1>2
  <2>2. sInstrED(n) = Extended(n)
    BY <1>2, <2>1 DEF sInstrED
  <2>3. Extended(n).op \in {"IN_R_ATR", "OUT_ATR_R", "ADC_RX_RX", "SBC_RX_RX", "LD_RX_ATw", "LD_ATw_RX",
                            "NEG", "RETN", "RETI", "IM", "LD_R_R", "LDS_A_R", "RRD", "RLD", "HALT"}
    BY DEF Extended, Undefined, Instr
  <2>4. QED BY <2>2, <2>3 DEF Linking
<1>3. CASE n >= 128 /\ n < 192
  <2>1. ~(n >= 64 /\ n < 128) /\ ~(n \in (32..63) \cup (240..255)) /\ n \in 128..191
    BY <1>1, <1>3
  <2>2. sInstrED(n) = Block(n)
    BY <1>3, <2>1 DEF sInstrED
  <2>3. QED BY <2>1, <2>2, BlockQuiet, FamiliesUnlinked
<1>4. CASE n \in (32..63) \cup (240..255)
  <2>1. ~(n >= 64 /\ n < 128) /\ ~(n >= 128 /\ n < 192)
    BY <1>1, <1>4
  <2>2. sInstrED(n) = Instr("Z80EXT", "", "")
    BY <1>4, <2>1 DEF sInstrED
  <2>3. Instr("Z80EXT", "", "").op = "Z80EXT"
    BY DEF Instr
  <2>4. QED BY <2>2, <2>3 DEF Linking
<1>5. CASE ~(n >= 64 /\ n < 128) /\ ~(n >= 128 /\ n < 192) /\ ~(n \in (32..63) \cup (240..255))
  <2>1. sInstrED(n) = Undefined
    BY <1>5 DEF sInstrED
  <2>2. Undefined.op = "HALT"
    BY DEF Undefined, Instr
  <2>3. QED BY <2>1, <2>2 DEF Linking
<1>6. QED BY <1>2, <1>3, <1>4, <1>5

\* An instruction without a prefix.
LEMMA PlainlyDecoded ==
  ASSUME NEW z, IsProcessor(z), read(z.mem, z.pc) \notin IndexBytes
  PROVE  DecodedAs(z.mem, z.pc, 0, z.pc)
<1>1. z.pc \in Int
  BY BytesAreNumbers DEF IsProcessor
<1>2. z.pc + 0 = z.pc
  BY <1>1
<1>3. Prefixed(z.mem, z.pc, 0)
  BY <1>2 DEF Prefixed, IndexBytes
<1>4. 0 \in 0..MaxPrefixes
  BY PrefixAssumption
<1>5. 0 = Prefixes(z.mem, z.pc)
  BY <1>3, <1>4, PrefixesAre
<1>6. QED BY <1>2, <1>5, DecodedAt DEF IndexBytes

\* What comes back, and what is called, without a prefix: loop() knows it by the opcode.
LEMMA LinksAreKnown ==
  ASSUME NEW z, IsProcessor(z), read(z.mem, z.pc) \notin IndexBytes
  PROVE  LET op == Decode(z.mem, z.pc).ins.op
             x == read(z.mem, z.pc)
         IN  /\ op = "RET" => x = 201 \/ (x >= 192 /\ x % 8 = 0)
             /\ op \in Calls => IsCall(z.mem, z.pc)
             /\ op \in {"RET"} \cup Calls => Decode(z.mem, z.pc).next = (z.pc + 1) % 65536
<1> DEFINE op == Decode(z.mem, z.pc).ins.op
           x == read(z.mem, z.pc)
<1>1. DecodedAs(z.mem, z.pc, 0, z.pc)
  BY PlainlyDecoded
<1>2. x \in Byte /\ read(z.mem, z.pc + 1) \in Byte
  BY MemoryIsBytes
<1>3. ASSUME x = 203 PROVE op \notin Linking
  <2>1. op = sInstrCB(read(z.mem, z.pc + 1)).op
    BY <1>1, <1>3 DEF DecodedAs
  <2>2. QED BY <1>2, <2>1, OnBytesOnly, FamiliesUnlinked
<1>4. ASSUME x = 237 PROVE op \notin Linking
  <2>1. op = sInstrED(read(z.mem, z.pc + 1)).op
    BY <1>1, <1>4 DEF DecodedAs
  <2>2. QED BY <1>2, <2>1, ExtendedUnlinked
<1>5. ASSUME x \notin {203, 237}
      PROVE  op = sInstr(x).op /\ Decode(z.mem, z.pc).next = (z.pc + 1) % 65536
  BY <1>1, <1>5 DEF DecodedAs
<1>6. /\ op = "RET" => x = 201 \/ (x >= 192 /\ x % 8 = 0)
      /\ op \in {"CALL", "RST"} => x = 205 \/ (x >= 192 /\ x % 8 \in {4, 7})
      /\ op \in {"RET", "CALL", "RST"} => Decode(z.mem, z.pc).next = (z.pc + 1) % 65536
  BY <1>2, <1>3, <1>4, <1>5, MainLinks DEF IndexBytes, Linking
<1>7. ASSUME x = 205 \/ (x >= 192 /\ x % 8 \in {4, 7}) PROVE IsCall(z.mem, z.pc)
  <2>1. x = 205 \/ (x > 192 /\ x % 8 \in {4, 7})
    BY <1>2, <1>7 DEF Byte
  <2>2. QED BY <2>1 DEF IsCall
<1> HIDE DEF op, x
<1>8. QED BY <1>6, <1>7 DEF Calls, op, x

-------------------------------------------------------------------------------
(* The return that X waits for. *)

\* A return, taken or not, leaves the memory alone; neither it nor what is accepted in
\* its place takes a word off the stack unless it is taken.
LEMMA ReturnLeavesMemory ==
  ASSUME NEW z, IsProcessor(z), ~Accepts(z), Bounded(z), Decode(z.mem, z.pc).ins.op = "RET", NEW any
  PROVE  sim(z, any).mem = z.mem
<1> DEFINE d == Decode(z.mem, z.pc)
           y == IF z.iff1 = 1 THEN [z EXCEPT !.iff2 = 1] ELSE z
           u == To(y, d.next)
<1>1. sim(z, any) = simop(u, d, any)
  BY DEF sim
<1>2. d.ins.op \in Calls \cup Returns /\ d.ins.op = "RET"
  BY DEF Returns
<1> HIDE DEF d
<1>3. IsProcessor(y) /\ y.mem = z.mem
  BY DEF IsProcessor, Flag
<1> HIDE DEF y
<1>4. u.mem = z.mem /\ "mem" \in DOMAIN u /\ "pc" \in DOMAIN u /\ "sp" \in DOMAIN u
  BY <1>3 DEF To, IsProcessor
<1> HIDE DEF u
<1>5. simop(u, d, any) = CallOrReturn(u, d)
  BY <1>2, FamilyExecutes
<1>6. CallOrReturn(u, d) = IF Holds(u.f, d.ins.x) THEN To(Pop(u), Top(u)) ELSE u
  BY <1>2 DEF CallOrReturn
<1>7. To(Pop(u), Top(u)).mem = u.mem
  BY <1>4 DEF To, Pop
<1>8. QED BY <1>1, <1>4, <1>5, <1>6, <1>7

LEMMA AcceptedTakesNothing ==
  ASSUME NEW z, IsProcessor(z), Accepts(z), NEW any
  PROVE  sim(z, any).sp # (z.sp + 2) % 65536
<1> DEFINE w == [z EXCEPT !.iff1 = 0, !.iff2 = 0]
           p == Push(w, w.pc)
<1>1. sim(z, any) = IF z.im = 1 THEN To(p, 56) ELSE w
  BY DEF sim
<1>2. w.sp = z.sp /\ "sp" \in DOMAIN w /\ "pc" \in DOMAIN w
  BY DEF IsProcessor
<1> HIDE DEF w
<1>3. p.sp = (z.sp + 65534) % 65536 /\ "sp" \in DOMAIN p
  BY <1>2 DEF Push
<1> HIDE DEF p
<1>4. To(p, 56).sp = (z.sp + 65534) % 65536
  BY <1>3 DEF To
<1>5. z.sp \in Int /\ z.sp >= 0 /\ z.sp < 65536
  BY DEF IsProcessor, Word
<1>6. (z.sp + 65534) % 65536 # (z.sp + 2) % 65536 /\ z.sp # (z.sp + 2) % 65536
  BY <1>5
<1>7. QED BY <1>1, <1>2, <1>4, <1>6

\* What loop() makes of a return while X waits.
LEMMA StopAtReturn ==
  ASSUME NEW z, z.mode = "RET", z.pc # bkpt, NEW at,
         NEW x \in Byte, x = read(z.mem, at), x = 201 \/ (x >= 192 /\ x % 8 = 0)
  PROVE  ModeAfter(z, at, FALSE) =
           IF z.pc # at + 1 /\ z.sp > retsp /\ z.sp < retsp + 32 THEN "STOP" ELSE "RET"
<1>1. x \notin {49, 249, 237}
  BY DEF Byte
<1>2. ~LoadedSP(z, at)
  BY <1>1 DEF LoadedSP
<1>3. ReturnedAbove(z, at) <=> z.pc # at + 1 /\ z.sp > retsp /\ z.sp < retsp + 32
  BY DEF ReturnedAbove
<1>4. ~GoesOn(z, at)
  BY DEF GoesOn
<1>5. QED BY <1>2, <1>3, <1>4 DEF ModeAfter

\* The call that ended is the latest one: its return address was on top of the stack.
LEMMA TopmostEnded ==
  ASSUME NEW f \in Seq(OpenCall), Ordered(f), NEW s \in Int, NEW t \in Int, Above(f, s),
         Len(Beyond(f, t)) < Len(f)
  PROVE  /\ f # << >> /\ Head(f) = f[1] /\ 1 \in DOMAIN f
         /\ f[1].sp \in Int /\ s <= f[1].sp /\ f[1].sp < t
<1> DEFINE n == Below(f, t)
           L == Len(f)
<1>1. L \in Nat /\ DOMAIN f = 1..L /\ \A i \in 1..L : f[i].sp \in Int /\ s <= f[i].sp
  BY CallsArePlaced DEF Above
<1>2. n \in 0..L /\ \A i \in 1..L : f[i].sp < t <=> i <= n
  BY BelowIs
<1>3. Len(Beyond(f, t)) = L - n
  BY BeyondIs
<1> HIDE DEF n
<1>4. L - n < L
  BY <1>3
<1>5. L # 0
  BY <1>1, <1>2, <1>4
<1>6. f # << >> /\ Head(f) = f[1]
  BY <1>5
<1> HIDE DEF L
<1>7. 1 \in 1..L /\ 1 <= n
  BY <1>1, <1>2, <1>4, <1>5
<1>8. QED BY <1>1, <1>2, <1>6, <1>7

\* Two bytes up from s, and above what was not below s: no further than that and two.
LEMMA TwoBytesUp ==
  ASSUME NEW s \in Word, NEW t \in Word, t = (s + 2) % 65536, NEW c \in Int, s <= c, c < t
  PROVE  t <= c + 2
<1>1. s \in Int /\ t \in Int /\ 0 <= s /\ s < 65536 /\ 0 <= t
  BY DEF Word
<1>2. s + 2 < 65536 \/ t < s
  BY <1>1
<1>3. t = s + 2
  BY <1>1, <1>2
<1>4. QED BY <1>1, <1>3

LEMMA ReturnIsAwaited ==
  ASSUME DebuggerInvariant, FramesStand, GoalStands,
         NEW typed \in BOOLEAN, NEW any \in InByte, Run(typed, FALSE, any),
         z80.mode = "RET", Returned, z80'.pc # bkpt
  PROVE  IF \E i \in DOMAIN goal : goal[i] = Head(frames)
         THEN z80'.mode = "STOP" \/ z80'.sp >= retsp + 32 \/ z80'.pc = z80.pc + 1
         ELSE z80'.mode = "STOP" => Head(frames).sp > retsp - 2
<1> DEFINE before == Poll(z80, typed)
           z == sim(before, any)
           x == read(z80.mem, z80.pc)
<1>1. any \in Byte /\ IsProcessor(z80) /\ retsp \in Word
  BY DebuggerAssumption DEF DebuggerInvariant, TypeOK
<1>2. /\ IsProcessor(before) /\ Bounded(before) /\ before.mode = z80.mode
      /\ before.mem = z80.mem /\ before.pc = z80.pc
  BY <1>1, PollKeeps DEF Like, Run
<1>3. before.sp = z80.sp
  BY <1>1 DEF Poll, IsProcessor
<1>4. Op = "RET" /\ x \notin IndexBytes /\ z80'.sp = (z80.sp + 2) % 65536 /\ Len(frames') < Len(frames)
  BY DEF Returned, Indexed
<1>5. Decode(before.mem, before.pc).ins.op = "RET" /\ read(before.mem, before.pc) = x
  BY <1>2, <1>4 DEF Op, Decoded
<1>6. x \in Byte /\ (x = 201 \/ (x >= 192 /\ x % 8 = 0))
  BY <1>2, <1>4, <1>5, MemoryIsBytes, LinksAreKnown
<1> HIDE DEF x
<1>7. z80' = [z EXCEPT !.mode = ModeAfter(z, z80.pc, FALSE)] /\ frames' = Frames(before, z80')
  BY DEF Run
<1>8. IsProcessor(z) /\ z.mode = "RET"
  BY <1>1, <1>2, <1>5, SimKeeps
<1> HIDE DEF z
<1>9. z80'.sp = z.sp /\ z80'.pc = z.pc /\ z80'.mode = ModeAfter(z, z80.pc, FALSE)
  BY <1>7, <1>8 DEF IsProcessor
<1>10. ~Accepts(before)
  BY <1>2, <1>3, <1>4, <1>9, AcceptedTakesNothing DEF z
<1>11. z.mem = z80.mem
  BY <1>2, <1>5, <1>10, ReturnLeavesMemory DEF z
<1>12. z80'.mode = IF z.pc # z80.pc + 1 /\ z.sp > retsp /\ z.sp < retsp + 32 THEN "STOP" ELSE "RET"
  BY <1>6, <1>8, <1>9, <1>11, StopAtReturn DEF x
<1>13. IsProcessor(z80')
  BY DebuggerNext DEF Next, loop, DebuggerInvariant, TypeOK
<1>14. frames' = Beyond(frames, z80'.sp)
  <2>1. ~Called(before, z80')
    BY <1>4, <1>10 DEF Called, Calls
  <2>2. QED BY <1>7, <1>13, <2>1, FramesAre DEF FramesStand
<1> DEFINE s == z80.sp
           t == z80'.sp
           c == Head(frames)
<1>15. s \in Word /\ t \in Word
  BY <1>1, <1>13 DEF IsProcessor
<1>16. c.sp \in Int /\ c.sp < t /\ t <= c.sp + 2
  <2>1. s \in Int /\ t \in Int
    BY <1>15, BytesAreNumbers
  <2>2. c.sp \in Int /\ s <= c.sp /\ c.sp < t
    BY <1>4, <1>14, <2>1, TopmostEnded DEF FramesStand
  <2>3. QED BY <1>4, <1>15, <2>2, TwoBytesUp
<1>17. retsp \in Int /\ t \in Int
  BY <1>1, <1>15 DEF Word
<1>18. ASSUME NEW i \in DOMAIN goal, goal[i] = c PROVE retsp < t
  <2>1. i \in 1..Len(goal) /\ retsp <= goal[i].sp
    BY CallsArePlaced DEF GoalStands, Above
  <2> HIDE DEF c, t
  <2>2. QED BY <1>16, <1>17, <1>18, <2>1
<1> HIDE DEF s, t, c
<1> DEFINE next == z80'.pc = z80.pc + 1
           stops == z80'.mode = "STOP"
<1>19. stops <=> ~next /\ t > retsp /\ t < retsp + 32
  BY <1>9, <1>12 DEF t
<1> HIDE DEF next, stops
<1>20. CASE \E i \in DOMAIN goal : goal[i] = c
  <2>1. t > retsp
    BY <1>17, <1>18, <1>20
  <2>2. stops \/ t >= retsp + 32 \/ next
    BY <1>17, <1>19, <2>1
  <2>3. QED BY <1>20, <2>2 DEF t, c, stops, next
<1>21. CASE ~(\E i \in DOMAIN goal : goal[i] = c)
  <2>1. stops => c.sp > retsp - 2
    BY <1>16, <1>17, <1>19
  <2>2. QED BY <1>21, <2>1 DEF c, stops
<1>22. QED BY <1>20, <1>21

StackInvariant == DebuggerInvariant /\ FramesStand /\ GoalStands

\* Nothing but a return that ends the routine X was pressed in, or one that it was
\* called from, stops the machine: UntilRetStopsThere of Debugger.
THEOREM ReturnsAreAwaited == Spec => UntilRetStopsThere
<1>1. Init => StackInvariant
  BY DebuggerInit, NoCallsYet DEF StackInvariant
<1>2. StackInvariant /\ [Next]_vars => StackInvariant'
  BY DebuggerNext, FramesStandOn, GoalStandsOn DEF StackInvariant
<1>3. StackInvariant /\ [Next]_vars =>
        [ Ran /\ z80.mode = "RET" /\ Returned /\ z80'.pc # bkpt =>
            IF \E i \in DOMAIN goal : goal[i] = Head(frames)
            THEN z80'.mode = "STOP" \/ z80'.sp >= retsp + 32 \/ z80'.pc = z80.pc + 1
            ELSE z80'.mode = "STOP" => Head(frames).sp > retsp - 2 ]_vars
  BY ReturnIsAwaited DEF Ran, StackInvariant
<1>4. QED BY <1>1, <1>2, <1>3, PTL DEF Spec, UntilRetStopsThere

-------------------------------------------------------------------------------
(* The call that C lets run. *)

LEMMA CallsAreListed ==
  ASSUME NEW n \in 192..255, n = 205 \/ Column(n) \in {4, 7}
  PROVE  sInstr(n).op \in Calls
<1>1. sInstr(n) = High(n)
  BY DEF sInstr
<1>2. CASE n = 205
  <2>1. High(n) = Instr("CALL", "always", "")
    BY <1>2 DEF High, Column, Row
  <2>2. Instr("CALL", "always", "").op = "CALL"
    BY DEF Instr
  <2>3. QED BY <1>1, <2>1, <2>2 DEF Calls
<1>3. CASE Column(n) = 4
  <2>1. Plain(n)
    BY <1>3, SinglesAreOdd
  <2>2. High(n) = Instr("CALL", CC(Row(n)), "")
    BY <1>3, <2>1 DEF High, Plain
  <2>3. Instr("CALL", CC(Row(n)), "").op = "CALL"
    BY DEF Instr
  <2>4. QED BY <1>1, <2>2, <2>3 DEF Calls
<1>4. CASE Column(n) = 7
  <2>1. Plain(n)
    BY <1>4, SinglesAreOdd
  <2>2. High(n) = Instr("RST", 8 * Row(n), "")
    BY <1>4, <2>1 DEF High, Plain
  <2>3. Instr("RST", 8 * Row(n), "").op = "RST"
    BY DEF Instr
  <2>4. QED BY <1>1, <2>2, <2>3 DEF Calls
<1>5. QED BY <1>2, <1>3, <1>4

\* What C takes for an instruction that comes back is a call, one that repeats, or one
\* that is not there.
LEMMA CallsAreKnown ==
  ASSUME NEW z, IsProcessor(z), IsCall(z.mem, z.pc)
  PROVE  /\ read(z.mem, z.pc) \notin IndexBytes
         /\ Decode(z.mem, z.pc).ins.op \notin Jumps \cup Returns
<1> DEFINE op == Decode(z.mem, z.pc).ins.op
           x == read(z.mem, z.pc)
           x1 == read(z.mem, z.pc + 1)
<1>1. x \in Byte /\ x1 \in Byte
  BY MemoryIsBytes
<1>2. x = 205 \/ (x > 192 /\ x % 8 \in {4, 7}) \/ (x = 237 /\ x1 \div 16 = 11)
  BY DEF IsCall
<1> HIDE DEF x1, x
<1>3. x \notin {221, 253, 203}
  BY <1>1, <1>2 DEF Byte
<1>4. DecodedAs(z.mem, z.pc, 0, z.pc)
  BY <1>3, PlainlyDecoded DEF IndexBytes, x
<1>5. CASE x = 237
  <2>1. x1 \in 128..191
    <3>1. x # 205 /\ x % 8 \notin {4, 7}
      BY <1>5
    <3>2. x1 \div 16 = 11
      BY <1>2, <3>1
    <3>3. QED BY <1>1, <3>2 DEF Byte
  <2>2. op = sInstrED(x1).op
    BY <1>4, <1>5 DEF DecodedAs, x, x1
  <2>3. sInstrED(x1) = Block(x1)
    <3>1. ~(x1 >= 64 /\ x1 < 128) /\ ~(x1 \in (32..63) \cup (240..255)) /\ x1 >= 128 /\ x1 < 192
      BY <2>1
    <3>2. QED BY <3>1 DEF sInstrED
  <2>4. op \in Quiet /\ Block(x1) \in BlockEntries
    BY <2>1, <2>2, <2>3, BlockQuiet, BlockTable
  <2>5. op \in Blocks \cup {"HALT"}
    <3>1. Undefined.op = "HALT"
      BY DEF Undefined, Instr
    <3>2. \A o \in Blocks : Instr(o, "", "").op = o
      BY DEF Instr
    <3>3. CASE Block(x1) = Undefined
      BY <2>2, <2>3, <3>1, <3>3
    <3>4. CASE Block(x1) # Undefined
      <4>1. PICK o \in Blocks : Block(x1) = Instr(o, "", "")
        BY <2>4, <3>4 DEF BlockEntries
      <4>2. op = o
        BY <2>2, <2>3, <3>2, <4>1
      <4> HIDE DEF op
      <4>3. QED BY <4>2
    <3>5. QED BY <3>3, <3>4
  <2>6. (Blocks \cup {"HALT"}) \cap (Jumps \cup Returns) = {}
    BY DEF Blocks, Moving, Comparing, Receiving, Sending, Jumps, Returns
  <2>7. QED BY <1>3, <2>5, <2>6 DEF IndexBytes, x
<1>6. CASE x # 237
  <2>1. x \in 192..255 /\ (x = 205 \/ Column(x) \in {4, 7})
    BY <1>1, <1>2, <1>6 DEF Byte, Column
  <2>2. op = sInstr(x).op
    BY <1>3, <1>4, <1>6 DEF DecodedAs, x
  <2>3. op \in Calls
    BY <2>1, <2>2, CallsAreListed
  <2>4. Calls \cap (Jumps \cup Returns) = {}
    BY DEF Calls, Jumps, Returns
  <2>5. QED BY <1>3, <2>3, <2>4 DEF IndexBytes, x
<1>7. QED BY <1>5, <1>6

\* C on what it does not take for a call opens none.
LEMMA SteppedIntoNothing ==
  ASSUME DebuggerInvariant, FramesStand, CallStepped PROVE Len(frames') <= Len(frames)
<1>1. PICK any \in InByte : ~Accepts(z80) /\ ~Indexed /\ CallStep(any)
  BY DEF CallStepped
<1>2. IsProcessor(z80) /\ Len(frames) \in Nat
  BY CallsArePlaced DEF DebuggerInvariant, TypeOK, FramesStand
<1>3. CASE IsCall(z80.mem, z80.pc)
  BY <1>1, <1>2, <1>3 DEF CallStep
<1>4. CASE ~IsCall(z80.mem, z80.pc)
  <2>1. Executes(any)
    BY <1>1, <1>4 DEF CallStep
  <2>2. Op \notin Calls
    BY <1>1, <1>2, <1>4, LinksAreKnown DEF Op, Decoded, Indexed
  <2>3. IsProcessor(z80')
    BY <2>1, ExecutesKeeps DEF DebuggerInvariant
  <2>4. frames' = Frames(z80, z80') /\ ~Called(z80, z80')
    BY <1>1, <2>1, <2>2 DEF Executes, Called
  <2>5. frames' = Beyond(frames, z80'.sp)
    BY <2>3, <2>4, FramesAre DEF FramesStand
  <2>6. z80'.sp \in Int
    BY <2>3, BytesAreNumbers DEF IsProcessor
  <2>7. Len(frames') = Len(frames) - Below(frames, z80'.sp) /\ Below(frames, z80'.sp) \in 0..Len(frames)
    BY <2>5, <2>6, BelowIs, BeyondIs DEF FramesStand
  <2>8. QED BY <1>2, <2>7
<1>5. QED BY <1>3, <1>4

-------------------------------------------------------------------------------
(* What C supposes of a program. *)

\* While C lets a call run, the call is not overwritten, and a call that ends does so by
\* a return, to where it was made.
Tidy ==
  stepping =>
    /\ \A i \in 0..3 : read(z80'.mem, calledAt + i) = read(z80.mem, calledAt + i)
    /\ \/ Left(z80'.sp) = 0
       \/ Op \in Returns /\ frames # << >> /\ frames' = Tail(frames) /\ z80'.pc = Head(frames).ret

\* The call is still to be made, or is one of those that are open: what was accepted
\* before it was made comes back to it, and the call goes on after it.
AtCall == Len(frames) = Len(over) /\ z80.pc = calledAt
InCall ==
  Len(frames) > Len(over) /\ frames[Len(frames) - Len(over)].ret \in {calledAt, bkpt}

StepStands ==
  stepping =>
    /\ ~Stopped /\ calledAt \in Word /\ Len(over) \in Nat
    /\ IsCall(z80.mem, calledAt) /\ bkpt = source(z80.mem, calledAt)
    /\ bkpt \in Word => AtCall \/ InCall

LEMMA CallStays ==
  ASSUME NEW m, NEW n, NEW a \in Int, \A i \in 0..3 : read(n, a + i) = read(m, a + i)
  PROVE  (IsCall(n, a) <=> IsCall(m, a)) /\ source(n, a) = source(m, a)
<1>1. a + 0 = a
  OBVIOUS
<1>2. read(n, a) = read(m, a) /\ read(n, a + 1) = read(m, a + 1) /\ read(n, a + 3) = read(m, a + 3)
  BY <1>1
<1>3. QED BY <1>2 DEF IsCall, source

LEMMA AllAreBeyond ==
  ASSUME NEW f \in Seq(OpenCall), NEW v, Below(f, v) = 0 PROVE Beyond(f, v) = f
BY DEF Beyond

\* The address that is on top of the stack after a request was accepted in mode 1.
LEMMA AcceptedIsOnTop ==
  ASSUME NEW z, IsProcessor(z), Accepts(z), NEW any
  PROVE  IF z.im = 1 THEN Top(sim(z, any)) = z.pc ELSE sim(z, any).pc = z.pc
<1> DEFINE w == [z EXCEPT !.iff1 = 0, !.iff2 = 0]
           p == Push(w, w.pc)
<1>1. sim(z, any) = IF z.im = 1 THEN To(p, 56) ELSE w
  BY DEF sim
<1>2. IsProcessor(w) /\ w.pc = z.pc /\ w.pc \in Word
  BY DEF IsProcessor, Flag
<1> HIDE DEF w
<1>3. Top(p) = w.pc /\ IsProcessor(p)
  BY <1>2, PushedIsOnTop, PushKeeps, LikeItself DEF Like
<1> HIDE DEF p
<1>4. Top(To(p, 56)) = Top(p)
  BY <1>3 DEF To, Top, IsProcessor
<1>5. QED BY <1>1, <1>2, <1>3, <1>4

\* One instruction at the call.
LEMMA CallIsMade ==
  ASSUME NEW z, IsProcessor(z), Bounded(z), IsCall(z.mem, z.pc), NEW any,
         NEW next, next = source(z.mem, z.pc) % 65536
  PROVE  IF Accepts(z)
         THEN IF z.im = 1 THEN Top(sim(z, any)) = z.pc ELSE sim(z, any).pc = z.pc
         ELSE IF Decode(z.mem, z.pc).ins.op \in Calls /\ sim(z, any).sp # z.sp
              THEN Top(sim(z, any)) = next
              ELSE sim(z, any).pc \in {z.pc, next}
<1> DEFINE op == Decode(z.mem, z.pc).ins.op
           w == sim(z, any)
<1>1. read(z.mem, z.pc) \notin IndexBytes /\ op \notin Jumps \cup Returns
  BY CallsAreKnown
<1>2. ASSUME ~Accepts(z)
      PROVE  IF op \in Calls /\ w.sp # z.sp THEN Top(w) = next ELSE w.pc \in {z.pc, next}
  <2>1. FewPrefixes(z.mem, z.pc) /\ ListedAlike(z.mem, z.pc)
    BY <1>1, <1>2 DEF Bounded, ListedAlike, IndexBytes
  <2>2. /\ op \in Calls => IF w.sp # z.sp THEN Top(w) = next ELSE w.pc = next
        /\ op \in Repeating => w.pc \in {next, z.pc}
        /\ op \notin Calls \cup Jumps \cup Returns \cup Repeating => w.pc = next
    BY <1>2, <2>1, ListedIsRun
  <2> HIDE DEF op, w
  <2>3. QED BY <1>1, <2>2 DEF op
<1>3. QED BY <1>2, AcceptedIsOnTop

\* The calls above the k earliest.
LEMMA CallAbove ==
  ASSUME NEW f \in Seq(OpenCall), NEW k \in Nat, Len(f) > k, NEW c \in OpenCall
  PROVE  /\ Len(<<c>> \o f) > k /\ (<<c>> \o f)[Len(<<c>> \o f) - k] = f[Len(f) - k]
         /\ IF Len(f) = k + 1 THEN Len(Tail(f)) = k /\ Head(f) = f[Len(f) - k]
            ELSE Len(Tail(f)) > k /\ Tail(f)[Len(Tail(f)) - k] = f[Len(f) - k]
<1> DEFINE L == Len(f)
           g == <<c>> \o f
           t == Tail(f)
<1>1. L \in Nat /\ f # << >>
  OBVIOUS
<1>2. Len(g) = L + 1 /\ \A i \in 1..L : g[i + 1] = f[i]
  OBVIOUS
<1>3. Len(t) = L - 1 /\ (\A i \in 1..(L - 1) : t[i] = f[i + 1]) /\ Head(f) = f[1]
  BY <1>1
<1> HIDE DEF L, g, t
<1>4. L > k
  BY DEF L
<1>5. L - k \in 1..L /\ (L + 1) - k = (L - k) + 1
  BY <1>1, <1>4
<1>6. Len(g) > k /\ g[Len(g) - k] = f[L - k]
  BY <1>1, <1>2, <1>4, <1>5
<1>7. CASE L = k + 1
  <2>1. L - k = 1 /\ L - 1 = k
    BY <1>1, <1>7
  <2>2. QED BY <1>3, <1>6, <1>7, <2>1 DEF L, g, t
<1>8. CASE L # k + 1
  <2>1. L - 1 > k /\ (L - 1) - k \in 1..(L - 1) /\ ((L - 1) - k) + 1 = L - k
    BY <1>1, <1>4, <1>8
  <2>2. t[(L - 1) - k] = f[L - k]
    BY <1>3, <2>1
  <2>3. QED BY <1>3, <1>6, <1>8, <2>1, <2>2 DEF L, g, t
<1>9. QED BY <1>7, <1>8

\* Where the machine is after an instruction, while C lets a call run.
Back == Len(frames') = Len(over) /\ z80'.pc \in {calledAt, bkpt}
Inside ==
  Len(frames') > Len(over) /\ frames'[Len(frames') - Len(over)].ret \in {calledAt, bkpt}

LEMMA StepGoes ==
  ASSUME StackInvariant, StepStands, Tidy, stepping, bkpt \in Word,
         NEW typed \in BOOLEAN, NEW pressed \in BOOLEAN, NEW any \in InByte, Run(typed, pressed, any)
  PROVE  Back \/ Inside
<1> DEFINE before == Poll(z80, typed)
           z == sim(before, any)
           c == [ret |-> Top(z80'), sp |-> z80'.sp]
           f == frames
           k == Len(over)
<1>1. any \in Byte /\ IsProcessor(z80)
  BY DebuggerAssumption DEF StackInvariant, DebuggerInvariant, TypeOK
<1>2. /\ IsProcessor(before) /\ Bounded(before) /\ before.mem = z80.mem /\ before.pc = z80.pc
      /\ before.sp = z80.sp
  BY <1>1, PollKeeps DEF Like, Run, Poll, IsProcessor
<1>3. z80' = [z EXCEPT !.mode = ModeAfter(z, z80.pc, pressed)] /\ frames' = Frames(before, z80')
  BY DEF Run
<1>4. IsProcessor(z)
  BY <1>1, <1>2, SimKeeps
<1>5. IsProcessor(z80')
  BY DebuggerNext DEF Next, loop, StackInvariant, DebuggerInvariant, TypeOK
<1> HIDE DEF z
<1>6. z80'.sp = z.sp /\ z80'.pc = z.pc /\ z80'.mem = z.mem
  BY <1>3, <1>4 DEF IsProcessor
<1>7. Top(z80') = Top(z)
  BY <1>6 DEF Top
<1>8. f \in Seq(OpenCall) /\ Ordered(f) /\ k \in Nat /\ Len(f) \in Nat
  BY CallsArePlaced DEF StackInvariant, FramesStand, StepStands
<1>9. frames' = IF Called(before, z80') THEN <<c>> \o Beyond(f, z80'.sp) ELSE Beyond(f, z80'.sp)
  BY <1>3, <1>5, FramesAre DEF StackInvariant, FramesStand
<1>10. c \in OpenCall
  <2>1. z80'.sp \in Word /\ Top(z80') \in Word
    BY <1>5, Readings DEF IsProcessor
  <2>2. QED BY <2>1 DEF OpenCall
<1>11. /\ calledAt \in Word /\ IsCall(z80.mem, calledAt) /\ bkpt = source(z80.mem, calledAt)
       /\ AtCall \/ InCall
  BY DEF StepStands
<1>12. bkpt = source(z80.mem, calledAt) % 65536
  BY <1>11, WordIsItself
<1> HIDE DEF before
<1>13. ASSUME AtCall, Left(z80'.sp) = 0 PROVE Back \/ Inside
  <2>1. Beyond(f, z80'.sp) = f
    BY <1>8, <1>13, AllAreBeyond DEF Left, Below
  <2>2. IF Accepts(before)
        THEN IF before.im = 1 THEN Top(z) = calledAt ELSE z.pc = calledAt
        ELSE IF Op \in Calls /\ z.sp # z80.sp THEN Top(z) = bkpt ELSE z.pc \in {calledAt, bkpt}
    <3>1. before.pc = calledAt /\ IsCall(before.mem, before.pc)
      BY <1>2, <1>11, <1>13 DEF AtCall
    <3>2. bkpt = source(before.mem, before.pc) % 65536
      BY <1>2, <1>12, <3>1
    <3>3. Decode(before.mem, before.pc).ins.op = Op
      BY <1>2 DEF Op, Decoded
    <3>4. QED BY <1>2, <3>1, <3>2, <3>3, CallIsMade DEF z
  <2>3. CASE Called(before, z80')
    <3>1. Top(z80') \in {calledAt, bkpt}
      BY <1>6, <1>7, <2>2, <2>3 DEF Called
    <3>2. c.ret \in {calledAt, bkpt}
      BY <3>1
    <3>3. frames' = <<c>> \o f
      BY <1>9, <2>1, <2>3
    <3> HIDE DEF c
    <3>4. Len(f) = k
      BY <1>13 DEF AtCall
    <3>5. Len(frames') = k + 1 /\ frames'[1] = c
      BY <1>8, <1>10, <3>3, <3>4
    <3> HIDE DEF f, k
    <3>6. Len(frames') > k /\ Len(frames') - k = 1
      BY <1>8, <3>5
    <3>7. QED BY <3>2, <3>5, <3>6 DEF Inside, k
  <2>4. CASE ~Called(before, z80')
    <3>1. frames' = f
      BY <1>9, <2>1, <2>4
    <3>2. z80'.pc \in {calledAt, bkpt}
      BY <1>6, <2>2, <2>4 DEF Called
    <3>3. QED BY <1>13, <3>1, <3>2 DEF AtCall, Back
  <2>5. QED BY <2>3, <2>4
<1>14. ASSUME InCall, Left(z80'.sp) = 0 PROVE Back \/ Inside
  <2>1. Beyond(f, z80'.sp) = f
    BY <1>8, <1>14, AllAreBeyond DEF Left, Below
  <2>2. frames' = f \/ frames' = <<c>> \o f
    BY <1>9, <2>1
  <2> HIDE DEF c
  <2>3. CASE frames' = f
    BY <1>14, <2>3 DEF InCall, Inside
  <2>4. CASE frames' = <<c>> \o f
    BY <1>8, <1>10, <1>14, <2>4, CallAbove DEF InCall, Inside
  <2>5. QED BY <2>2, <2>3, <2>4
<1>15. ASSUME AtCall, Op \in Returns PROVE FALSE
  <2>1. IsCall(z80.mem, z80.pc)
    BY <1>11, <1>15 DEF AtCall
  <2>2. QED BY <1>1, <1>15, <2>1, CallsAreKnown DEF Op, Decoded
<1>16. ASSUME InCall, frames # << >>, frames' = Tail(frames), z80'.pc = Head(frames).ret
       PROVE  Back \/ Inside
  <2>1. IF Len(f) = k + 1 THEN Len(Tail(f)) = k /\ Head(f) = f[Len(f) - k]
        ELSE Len(Tail(f)) > k /\ Tail(f)[Len(Tail(f)) - k] = f[Len(f) - k]
    BY <1>8, <1>10, <1>16, CallAbove DEF InCall
  <2>2. QED BY <1>16, <2>1 DEF InCall, Back, Inside
<1>17. QED BY <1>11, <1>13, <1>14, <1>15, <1>16 DEF Tidy

\* A machine that comes to its breakpoint stops.
LEMMA StopsAtBreakpoint ==
  ASSUME NEW typed \in BOOLEAN, NEW pressed \in BOOLEAN, NEW any \in InByte, Run(typed, pressed, any),
         DebuggerInvariant
  PROVE  /\ z80'.pc = bkpt => z80'.mode = "STOP"
         /\ z80'.pc # bkpt => bkpt' = bkpt
         /\ IF z80'.mode = "STOP" THEN ~stepping' ELSE stepping' = stepping /\ over' = over /\ calledAt' = calledAt
<1> DEFINE z == sim(Poll(z80, typed), any)
<1>1. any \in Byte /\ IsProcessor(z80)
  BY DebuggerAssumption DEF DebuggerInvariant, TypeOK
<1>2. IsProcessor(Poll(z80, typed)) /\ Bounded(Poll(z80, typed))
  BY <1>1, PollKeeps DEF Like, Run
<1>3. IsProcessor(z)
  BY <1>1, <1>2, SimKeeps
<1>4. z80' = [z EXCEPT !.mode = ModeAfter(z, z80.pc, pressed)] /\ bkpt' = AfterHit(z.pc)
  BY DEF Run
<1> HIDE DEF z
<1>5. z80'.pc = z.pc /\ z80'.mode = ModeAfter(z, z80.pc, pressed)
  BY <1>3, <1>4 DEF IsProcessor
<1>6. QED BY <1>4, <1>5 DEF ModeAfter, AfterHit, Run

LEMMA StepStandsOn ==
  ASSUME StackInvariant, StepStands, [Next]_vars, [Tidy]_vars PROVE StepStands'
<1>1. CASE UNCHANGED vars
  BY <1>1 DEF vars, history, commands, StepStands, AtCall, InCall, Stopped
<1>2. ASSUME NEW typed \in BOOLEAN, NEW pressed \in BOOLEAN, NEW any \in InByte,
             Run(typed, pressed, any), ~(UNCHANGED vars)
      PROVE  StepStands'
  <2>1. Tidy
    BY <1>2
  <2>2. SUFFICES ASSUME stepping' PROVE StepStands'
    BY DEF StepStands
  <2>3. DebuggerInvariant
    BY DEF StackInvariant
  <2>4. /\ z80'.mode # "STOP" /\ z80'.pc # bkpt /\ bkpt' = bkpt /\ stepping
        /\ over' = over /\ calledAt' = calledAt
    BY <1>2, <2>2, <2>3, StopsAtBreakpoint
  <2>5. calledAt \in Word /\ Len(over) \in Nat /\ IsCall(z80.mem, calledAt) /\ bkpt = source(z80.mem, calledAt)
    BY <2>4 DEF StepStands
  <2>6. IsCall(z80'.mem, calledAt) /\ bkpt = source(z80'.mem, calledAt)
    <3>1. \A i \in 0..3 : read(z80'.mem, calledAt + i) = read(z80.mem, calledAt + i)
      BY <2>1, <2>4 DEF Tidy
    <3>2. calledAt \in Int
      BY <2>5, BytesAreNumbers
    <3>3. QED BY <2>5, <3>1, <3>2, CallStays
  <2>7. ASSUME bkpt \in Word PROVE (AtCall \/ InCall)'
    <3>1. Back \/ Inside
      BY <1>2, <2>1, <2>4, <2>7, StepGoes
    <3>2. QED BY <2>4, <3>1 DEF Back, Inside, AtCall, InCall
  <2>8. QED BY <2>4, <2>5, <2>6, <2>7 DEF StepStands, Stopped
<1>3. ASSUME NEW any \in InByte, CallStep(any) PROVE StepStands'
  <2>1. CASE IsCall(z80.mem, z80.pc)
    <3>1. /\ stepping' = TRUE /\ over' = frames /\ frames' = frames /\ calledAt' = z80.pc
          /\ bkpt' = source(z80.mem, z80.pc) /\ z80' = [z80 EXCEPT !.mode = "RUN"]
      BY <1>3, <2>1 DEF CallStep, Runs
    <3>2. IsProcessor(z80) /\ Len(frames) \in Nat
      BY CallsArePlaced DEF StackInvariant, DebuggerInvariant, TypeOK, FramesStand
    <3>3. z80'.mode = "RUN" /\ z80'.pc = z80.pc /\ z80'.mem = z80.mem /\ z80.pc \in Word
      BY <3>1, <3>2 DEF IsProcessor
    <3>4. QED BY <2>1, <3>1, <3>2, <3>3 DEF StepStands, Stopped, AtCall
  <2>2. CASE ~IsCall(z80.mem, z80.pc)
    <3>1. stepping' = stepping /\ Stopped
      BY <1>3, <2>2 DEF CallStep, AtCode
    <3>2. QED BY <3>1 DEF StepStands
  <2>3. QED BY <2>1, <2>2
<1>4. ASSUME Stopped, stepping' = stepping PROVE StepStands'
  BY <1>4 DEF StepStands
<1>5. QED
  BY <1>1, <1>2, <1>3, <1>4 DEF Next, Key, loop, Go, Breakpoint, BreakpointAgain, BreakpointUnread,
     InstructionStep, UntilRet, Show, AtCode, history

LEMMA CallComesBack ==
  ASSUME StackInvariant, StepStands, Next, Tidy, stepping, z80'.mode = "STOP", z80'.pc = bkpt
  PROVE  \/ Len(frames') <= Len(over)
         \/ \E k \in 1..(Len(frames') - Len(over)) : frames'[k].ret \in {bkpt, calledAt}
<1>1. PICK typed \in BOOLEAN, pressed \in BOOLEAN, any \in InByte : Run(typed, pressed, any)
  BY DEF StepStands, Next, Key, loop, Go, Breakpoint, BreakpointAgain, BreakpointUnread, CallStep,
     InstructionStep, UntilRet, Show, AtCode
<1>2. IsProcessor(z80') /\ Len(frames') \in Nat /\ Len(over) \in Nat
  <2>1. DebuggerInvariant' /\ FramesStand'
    BY DebuggerNext, FramesStandOn DEF StackInvariant
  <2>2. QED BY <2>1, CallsArePlaced DEF DebuggerInvariant, TypeOK, FramesStand, StepStands
<1>3. bkpt \in Word
  BY <1>2 DEF IsProcessor
<1>4. Back \/ Inside
  BY <1>1, <1>3, StepGoes
<1> DEFINE n == Len(frames') - Len(over)
<1>5. ASSUME Inside PROVE n \in 1..n /\ frames'[n].ret \in {bkpt, calledAt}
  BY <1>2, <1>5 DEF Inside
<1>6. QED BY <1>2, <1>4, <1>5 DEF Back

\* C never leaves the user inside a routine, if the program is tidy: CallStepComesBack
\* of Debugger.  What the hypothesis asks for the machine cannot know; a routine that
\* drops its return address, or goes back elsewhere, is not come back from.
THEOREM CallsComeBack == Spec /\ [][Tidy]_vars => CallStepComesBack
<1> DEFINE Inv == StackInvariant /\ StepStands
<1>1. Init => Inv
  BY DebuggerInit, NoCallsYet DEF StackInvariant, StepStands, Init
<1>2. Inv /\ [Next]_vars /\ [Tidy]_vars => Inv'
  BY DebuggerNext, FramesStandOn, GoalStandsOn, StepStandsOn DEF StackInvariant
<1>3. Inv /\ [Next]_vars /\ [Tidy]_vars =>
        [ /\ CallStepped => Len(frames') <= Len(frames)
          /\ stepping /\ z80'.mode = "STOP" /\ z80'.pc = bkpt =>
               \/ Len(frames') <= Len(over)
               \/ \E k \in 1..(Len(frames') - Len(over)) : frames'[k].ret \in {bkpt, calledAt}
        ]_vars
  BY SteppedIntoNothing, CallComesBack DEF StackInvariant
<1>4. QED BY <1>1, <1>2, <1>3, PTL DEF Spec, CallStepComesBack
===============================================================================
